---- MODULE Spec2Model ----
(***************************************************************************)
(* Model of the Real-Debrid provider of annatar:                           *)
(*   - RealDebridProvider.get_stream_links, the batch generator, with its  *)
(*     consumer, its stop event and the provider's HTTP session   (Spec)   *)
(*   - RealDebridProvider.get_video_url_from_realdebrid, the per-torrent   *)
(*     resolver, with add_new_torrent, create_download_link and the        *)
(*     polling of DebridService.wait_for_status            (SpecResolve)   *)
(*   - DebridService.wait_for_status called on its own        (SpecWait)   *)
(*   - DebridService._make_request, one call            (SpecRequest)      *)
(*   - RealDebridProvider.make_request            (SpecMakeRequest)        *)
(*   - RealDebridProvider.delete_all_watchlist_rd      (SpecDelete)        *)
(*   - the generator beside another request of the instance (SpecShared)   *)
(*   - two wait_for_status calls at once                    (SpecBoth)     *)
(*   - the generator with a fair consumer and provider      (SpecFair)     *)
(*   - the provider as an async context manager           (SpecContext)   *)
(***************************************************************************)
EXTENDS Integers, Sequences, FiniteSets, TLC

VARIABLES
    torrents,      \* get_stream_links argument: list of info-hashes / magnets
    stop,          \* get_stream_links argument: asyncio.Event, TRUE when set
    max_results,   \* get_stream_links argument
    gpc,           \* position of the generator's frame
    it,            \* number of items the for loop has taken from torrents
    gend,          \* how the generator left its try block
    _session,      \* DebridService._session: 0 is None, else a session id
    sessions,      \* per created ClientSession, the number of close() calls
    yielded,       \* StreamLinks handed to the consumer, in order
    requests,      \* provider requests issued, in order
    inflight,      \* list indices whose provider request has no reply yet
    handle,        \* the handle the provider reported for the last torrent
    call,          \* one call of _make_request: arguments, attempts, result
    info_hash,     \* get_video_url_from_realdebrid argument
    max_retries,   \* max_retries argument of the resolver and of wait_for_status
    file_choice,   \* the file the selector's name and episode matching points at
    frame,         \* locals and position of the running resolver coroutine
    dpc,           \* position of delete_all_watchlist_rd
    semaphore,     \* the value of its asyncio.Semaphore
    delete_tasks,  \* per listed torrent, the position of its delete_torrent task
    peer,          \* a request another coroutine makes on the same instance
    other,         \* the frame of a second coroutine in wait_for_status
    request_args,  \* one call of make_request: its arguments, what it forwards
    with_block     \* an async with block on the provider: position, outcome

gvars == <<torrents, stop, max_results, gpc, it, gend, _session, sessions,
           yielded, inflight, handle>>

rvars == <<info_hash, max_retries, file_choice, frame, call>>

\* coroutines that run beside the generator and the resolver
cvars == <<dpc, semaphore, delete_tasks, peer, other, request_args,
           with_block>>

vars == <<gvars, requests, rvars, cvars>>

---------------------------------------------------------------------------
(* Bounds and input alphabets *)

MaxTorrents == 2
MaxResults == 2

\* Python None, and a key that is absent from a JSON object
None == "None"
Missing == "Missing"
\* a JSON value that is present but is not a string
NonStr == "NonStr"

\* info-hashes as the caller writes them and as the provider lists them
InputHashes == {"Ab", "cd"}
ListHashes == {"aB", "cd"}
MagnetToken == "magnet:?xt=urn:btih:ab"
TorrentInputs == InputHashes \cup {MagnetToken}

TerminalStatuses == {"magnet_error", "error", "virus", "dead"}
Statuses == TerminalStatuses \cup
            {"magnet_conversion", "waiting_files_selection", "queued",
             "downloading", "downloaded"}

\* a lower() that changes nothing
lower_unchanged(s) == s

\* str.lower() on the tokens of the model
lower(s) ==
    CASE s = "Ab" -> "ab"
      [] s = "aB" -> "ab"
      [] OTHER -> s

SeqsUpTo(S, n) == UNION {[1..k -> S] : k \in 0..n}

---------------------------------------------------------------------------
(* Provider replies to GET /torrents *)

AllKeys == {"hash", "filename", "bytes"}

\* one element of the user's torrent list, as the code reads it; keys is the
\* set of keys present in the JSON object (id, status and links always are)
ListEntries ==
    [keys : {AllKeys, AllKeys \ {"filename"}, AllKeys \ {"bytes"}},
     hash : ListHashes, id : {"T1"}, status : Statuses,
     links : {<<>>, <<"L1">>}, filename : {"f.mkv"}, bytes : {7}]
    \cup
    [keys : {AllKeys \ {"hash"}, AllKeys}, hash : {NonStr}, id : {"T1"},
     status : {"downloaded"}, links : {<<"L1">>}, filename : {"f.mkv"},
     bytes : {7}]

\* elements that may stand in front of the element of interest
LeadEntries ==
    [keys : {AllKeys}, hash : ListHashes \cup {NonStr}, id : {"T0"},
     status : {"downloaded"}, links : {<<"L0">>}, filename : {"lead.mkv"},
     bytes : {9}]
    \cup
    [keys : {AllKeys \ {"hash"}}, hash : {NonStr}, id : {"T0"},
     status : {"downloaded"}, links : {<<"L0">>}, filename : {"lead.mkv"},
     bytes : {9}]

TorrentLists ==
    {<<>>} \cup {<<e>> : e \in ListEntries}
           \cup {<<p, e>> : p \in LeadEntries, e \in ListEntries}

\* the outcome of get_user_torrent_list: the parsed list, or a ProviderException
\* raised by _make_request
ListReplies ==
    [kind : {"list"}, value : TorrentLists] \cup
    [kind : {"raise"}, value : {<<>>}]

---------------------------------------------------------------------------
(* Pure parts of the provider *)

api_key == "KEY"

NoEntry ==
    [keys |-> {}, hash |-> NonStr, id |-> "", status |-> "none",
     links |-> <<>>, filename |-> "", bytes |-> 0]

NoLink == [name |-> "", size |-> 0, url |-> <<>>]

\* the for loop of get_available_torrent from element k on; ihash is
\* already lowered
RECURSIVE ScanTorrents(_, _, _)
ScanTorrents(available_torrents, k, ihash) ==
    IF k > Len(available_torrents)
    THEN [kind |-> "none", t |-> NoEntry, exc |-> "none"]
    ELSE LET torrent == available_torrents[k] IN
         IF "hash" \notin torrent.keys
         THEN [kind |-> "raise", t |-> NoEntry, exc |-> "KeyError"]
         ELSE IF torrent.hash = NonStr
         THEN [kind |-> "raise", t |-> NoEntry, exc |-> "AttributeError"]
         ELSE IF lower(torrent.hash) = ihash
         THEN [kind |-> "found", t |-> torrent, exc |-> "none"]
         ELSE ScanTorrents(available_torrents, k + 1, ihash)

\* get_available_torrent once get_user_torrent_list has answered
get_available_torrent(reply, ihash) ==
    IF reply.kind = "raise"
    THEN [kind |-> "raise", t |-> NoEntry, exc |-> "ProviderException"]
    ELSE ScanTorrents(reply.value, 1, lower(ihash))

\* StreamLink(name=..., size=..., url=...): pydantic validates name: str and
\* size: int, and dict.get gives None for an absent key
StreamLink(torrent_info, ihash) ==
    IF "filename" \in torrent_info.keys /\ "bytes" \in torrent_info.keys
    THEN [kind |-> "link", exc |-> "none",
          link |-> [name |-> torrent_info.filename,
                    size |-> torrent_info.bytes,
                    url |-> <<"rd", api_key, ihash, torrent_info.id,
                              torrent_info.filename>>]]
    ELSE [kind |-> "raise", exc |-> "ValidationError", link |-> NoLink]

\* the exceptions get_stream_for_torrent turns into a None result
CaughtExceptions == {"KeyError", "IndexError", "ProviderException"}

\* get_stream_for_torrent once the torrent list request has answered
get_stream_for_torrent(reply, ihash) ==
    LET torrent_info == get_available_torrent(reply, ihash)
        built == StreamLink(torrent_info.t, ihash)
        result ==
            IF torrent_info.kind = "raise"
            THEN [kind |-> "raise", exc |-> torrent_info.exc, link |-> NoLink]
            ELSE IF torrent_info.kind = "none"
            THEN [kind |-> "none", exc |-> "none", link |-> NoLink]
            ELSE IF torrent_info.t.links # <<>>
            THEN built
            ELSE [kind |-> "none", exc |-> "none", link |-> NoLink]
    IN  IF result.kind = "raise" /\ result.exc \in CaughtExceptions
        THEN [kind |-> "none", exc |-> "none", link |-> NoLink]
        ELSE result

---------------------------------------------------------------------------
(* Provider replies read by the resolver *)

MaxRetries == 2
MaxFiles == 2
MaxLinks == 2

\* the torrent list as get_video_url_from_realdebrid reads it: of an element
\* only hash, id and status are used
HandleLists ==
    {l \in TorrentLists :
        \A k \in 1..Len(l) :
            /\ {"filename", "bytes"} \subseteq l[k].keys
            /\ l[k].links # <<>>}

HandleListReplies ==
    [kind : {"list"}, value : HandleLists] \cup
    [kind : {"raise"}, value : {<<>>}]

\* the ProviderException _handle_request_error raises for a request that
\* could not connect
RequestErrors ==
    {[message |-> "Failed to connect to Debrid service.",
      video |-> "debrid_service_down_error.mp4"]}

NoError == [message |-> "", video |-> ""]

\* the outcome of a request whose body the caller does not read
PlainReplies ==
    [ok : {TRUE}, err : {NoError}] \cup [ok : {FALSE}, err : RequestErrors]

\* GET /torrents/activeCount: limit reached or not, info_hash listed or not
ActiveReplies ==
    [ok : {TRUE}, err : {NoError}, full : BOOLEAN, listed : BOOLEAN] \cup
    [ok : {FALSE}, err : RequestErrors, full : {FALSE}, listed : {FALSE}]

\* addMagnet / addTorrent: a body with the new torrent's id, or a body
\* without an id key
AddReplies(id) ==
    [ok : {TRUE}, err : {NoError}, id : {id, None}] \cup
    [ok : {FALSE}, err : RequestErrors, id : {None}]

\* files of a torrent: position k holds the selected flag of the file with
\* id k; idstr tells whether the JSON ids are strings
FileLists == UNION {[1..n -> {0, 1}] : n \in 0..MaxFiles}
LinkLists == {[k \in 1..n |-> k] : n \in 0..MaxLinks}

NoInfo ==
    [id |-> "", status |-> "none", files |-> <<>>, links |-> <<>>,
     idstr |-> TRUE]

\* GET /torrents/info/{id}. The reply is varied where the code reads it:
\* links in a reply that reports downloaded, files in one that reports
\* downloaded or waiting_files_selection, and the type of the file ids in
\* one that reports waiting_files_selection
TorrentInfos(id) ==
    [id : {id},
     status : Statuses \ {"downloaded", "waiting_files_selection"},
     files : {<<>>}, links : {<<>>}, idstr : {TRUE}]
    \cup
    [id : {id}, status : {"downloaded"}, files : FileLists,
     links : LinkLists, idstr : {TRUE}]
    \cup
    [id : {id}, status : {"waiting_files_selection"}, files : FileLists,
     links : {<<>>}, idstr : BOOLEAN]

InfoReplies(id) ==
    [ok : {TRUE}, err : {NoError}, info : TorrentInfos(id)] \cup
    [ok : {FALSE}, err : RequestErrors, info : {NoInfo}]

\* GET /torrents/info/{id} as wait_for_status reads it: of a reply whose
\* status is not the target only the status is read, so files, links and the
\* type of the ids are varied in the replies that report the target
PollReplies(id, target_status) ==
    {r \in InfoReplies(id) :
        (r.ok /\ r.info.status # target_status) =>
            (r.info.files = <<>> /\ r.info.links = <<>> /\ r.info.idstr)}

\* an element of the torrent list used as torrent_info
InfoOfEntry(t) ==
    [id |-> t.id, status |-> t.status, files |-> <<>>, links |-> t.links,
     idstr |-> TRUE]

\* mime types, as lists of characters
Video == <<"v", "i", "d", "e", "o">>
MimeVideoMp4 == Video \o <<"/", "m", "p", "4">>
MimeXVideo == <<"x">> \o Video
MimeVide == <<"v", "i", "d", "e">>

MimeValues ==
    [kind : {"str"}, text : {MimeVideoMp4, MimeXVideo, MimeVide, <<>>}]
    \cup [kind : {"missing", "nonstr"}, text : {<<>>}]

\* POST /unrestrict/link (is_expected_to_fail): a body with a download key,
\* a body with an error_code, a body with neither, or no answer
UnrestrictReplies ==
    [kind : {"download"}, mime : MimeValues,
     download : {"url"}, error_code : {0}, err : {NoError}]
    \cup
    [kind : {"download"}, mime : {[kind |-> "str", text |-> MimeVideoMp4]},
     download : {"empty", "nonstr"}, error_code : {0}, err : {NoError}]
    \cup
    [kind : {"error"}, mime : {[kind |-> "missing", text |-> <<>>]},
     download : {"none"}, error_code : {23, 24}, err : {NoError}]
    \cup
    [kind : {"other"}, mime : {[kind |-> "missing", text |-> <<>>]},
     download : {"none"}, error_code : {0}, err : {NoError}]
    \cup
    [kind : {"raise"}, mime : {[kind |-> "missing", text |-> <<>>]},
     download : {"none"}, error_code : {0}, err : RequestErrors]

NoResponse ==
    [kind |-> "none", mime |-> [kind |-> "missing", text |-> <<>>],
     download |-> "none", error_code |-> 0, err |-> NoError]

---------------------------------------------------------------------------
(* The resolver's frame and its synchronous code *)

NoResult ==
    [kind |-> "running", exc |-> "", message |-> "", video |-> "",
     value |-> ""]

IdleFrame ==
    [pc |-> "idle", status |-> "none", torrent_info |-> NoInfo,
     torrent_id |-> "", selected_file_index |-> 0, link_index |-> 0,
     target |-> "", left |-> 0, ctx |-> "", prefetched |-> FALSE,
     polled |-> "none", add_response |-> "", listed |-> "",
     active |-> [seen |-> FALSE, full |-> FALSE, listed |-> FALSE],
     error |-> NoError,
     response |-> NoResponse, result |-> NoResult]

\* raise exc(message, video): the coroutine ends with the exception
raise(f, exc, message, video) ==
    [f EXCEPT !.pc = "done",
              !.result = [kind |-> "raise", exc |-> exc, message |-> message,
                          video |-> video, value |-> ""]]

ProviderException(f, message, video) ==
    raise(f, "ProviderException", message, video)

\* a request that got no answer: _make_request raises err
RequestFailed(f, err) == ProviderException(f, err.message, err.video)

\* return value
return(f, value) ==
    [f EXCEPT !.pc = "done",
              !.result = [kind |-> "return", exc |-> "", message |-> "",
                          video |-> "", value |-> value]]

\* str.startswith
startswith(s, prefix) ==
    /\ Len(s) >= Len(prefix)
    /\ SubSeq(s, 1, Len(prefix)) = prefix

\* a gate that only asks for a non-empty string
is_video_any_string(mime_type) ==
    mime_type.kind = "str" /\ mime_type.text # <<>>

\* create_download_link line 494, negated: mime_type is truthy, a str and
\* starts with "video"
is_video(mime_type) ==
    /\ mime_type.kind = "str"
    /\ mime_type.text # <<>>
    /\ startswith(mime_type.text, Video)

\* a status test that forgets dead
is_terminal_without_dead(status) ==
    status \in {"magnet_error", "error", "virus"}

\* get_video_url_from_realdebrid line 535
is_terminal(status) ==
    status \in {"magnet_error", "error", "virus", "dead"}

\* a test that takes every reply for one with an id
no_id_never(response) == FALSE

\* add_new_torrent lines 591-596: torrent_id = response.get("id"), and
\* not torrent_id
no_id(response) == response.id = None

\* create_download_link line 458: "id" not in add_magnet_response
id_not_in(response) == response.id = None

\* a loop that runs once more than asked
range_one_more(n) == n + 1

\* a comparison that also takes downloading for the target
reached_or_downloading(torrent_info, target_status) ==
    torrent_info.status \in {target_status, "downloading"}

\* wait_for_status lines 154 and 159: torrent_info["status"] == target_status
reached(torrent_info, target_status) ==
    torrent_info.status = target_status

\* range(max_retries): the number of iterations of the polling loop
range(n) == n

\* the selector of annatar.debrid.parser: 0 when the torrent has no file, the
\* sole file when there is one, else the file the matching points at, or the
\* first file when the matching finds none (positions count from 1)
select_file_index_from_torrent(torrent_info) ==
    IF Len(torrent_info.files) = 0 THEN 0
    ELSE IF Len(torrent_info.files) = 1 THEN 1
    ELSE IF file_choice <= Len(torrent_info.files) THEN file_choice
    ELSE 1

\* the positions of the selected files, and list.index among them
SelectedFiles(files) == {k \in 1..Len(files) : files[k] = 1}
IndexAmongSelected(files, k) ==
    Cardinality({j \in SelectedFiles(files) : j <= k})

\* a test that only compares the numbers of selected files and of links
stale_selection_by_count(torrent_info, selected_file_index) ==
    Cardinality(SelectedFiles(torrent_info.files)) # Len(torrent_info.links)

\* create_download_link lines 453-455: relevant_file not in selected_files
\* or len(selected_files) != len(torrent_info["links"])
stale_selection(torrent_info, selected_file_index) ==
    \/ selected_file_index \notin SelectedFiles(torrent_info.files)
    \/ Cardinality(SelectedFiles(torrent_info.files))
           # Len(torrent_info.links)

\* create_download_link lines 485-491: the links of torrent_info are checked
\* and the unrestrict request is next
check_links(f) ==
    IF f.torrent_info.links = <<>>
    THEN ProviderException(f, "No download links available",
                           "transfer_error.mp4")
    ELSE [f EXCEPT !.pc = "unrestrict"]

\* create_download_link lines 426-483 up to its first request: the selector
\* runs, and either the handle is to be deleted and re-created or the link at
\* the chosen file's place among the selected files is taken
create_download_link(f, torrent_info) ==
    LET selected_file_index == select_file_index_from_torrent(torrent_info)
        g == [f EXCEPT !.torrent_info = torrent_info,
                       !.selected_file_index = selected_file_index]
    IN  IF selected_file_index = 0
        THEN ProviderException(g, "No matching file available",
                               "no_matching_file.mp4")
        ELSE IF stale_selection(torrent_info, selected_file_index)
        THEN [g EXCEPT !.pc = "delete_stale"]
        ELSE check_links(
                 [g EXCEPT !.link_index =
                     IndexAmongSelected(torrent_info.files,
                                        selected_file_index)])

\* what follows a wait_for_status that returned torrent_info, by call site
after_wait(f, torrent_info) ==
    CASE f.ctx = "select" ->
             \* line 543 returned: start_torrent_download is next
             [f EXCEPT !.torrent_info = torrent_info,
                       !.pc = "start_torrent_download"]
      [] f.ctx = "downloaded" ->
             \* line 561 returned: create_download_link
             create_download_link(f, torrent_info)
      [] f.ctx = "re_select" ->
             \* line 465 returned: lines 469-476
             IF f.selected_file_index > Len(torrent_info.files)
             THEN raise([f EXCEPT !.torrent_info = torrent_info],
                        "IndexError", "", "")
             ELSE IF ~torrent_info.idstr
             THEN ProviderException([f EXCEPT !.torrent_info = torrent_info],
                                    "Invalid file ID", "transfer_error.mp4")
             ELSE [f EXCEPT !.torrent_info = torrent_info,
                            !.pc = "select_one_file"]
      [] f.ctx = "re_downloaded" ->
             \* line 478 returned: link_index = 0, the first link
             check_links([f EXCEPT !.torrent_info = torrent_info,
                                   !.link_index = 1])
      [] OTHER ->
             \* wait_for_status called on its own
             return([f EXCEPT !.torrent_info = torrent_info], "torrent_info")

\* the message of line 163, f"Torrent did not reach {target_status} status."
did_not_reach(target_status) ==
    IF target_status = "downloaded"
    THEN "Torrent did not reach downloaded status."
    ELSE "Torrent did not reach waiting_files_selection status."

\* wait_for_status lines 157 and 162: the loop takes its next iteration, or
\* is over and the wait fails
wait_loop(f) ==
    IF f.left > 0
    THEN [f EXCEPT !.pc = "poll"]
    ELSE ProviderException(f, did_not_reach(f.target),
                           "torrent_not_downloaded.mp4")

\* a wait whose look at the pre-fetched handle counts as one of the retries
wait_for_status_precheck_counted(f, torrent_id, target_status, has_info, torrent_info, ctx) ==
    LET g == [f EXCEPT !.torrent_id = torrent_id, !.target = target_status,
                       !.ctx = ctx, !.prefetched = has_info,
                       !.polled = "none",
                       !.torrent_info = IF has_info THEN torrent_info ELSE @,
                       !.left = IF has_info THEN range(max_retries) - 1
                                ELSE range(max_retries)]
    IN  IF has_info /\ g.left >= 0 /\ reached(torrent_info, target_status)
        THEN after_wait(g, torrent_info)
        ELSE wait_loop(g)

\* wait_for_status lines 153-157, up to its first request; a pre-fetched
\* handle stays in the frame until a poll that reaches the target replaces it
wait_for_status(f, torrent_id, target_status, has_info, torrent_info, ctx) ==
    LET g == [f EXCEPT !.torrent_id = torrent_id, !.target = target_status,
                       !.ctx = ctx, !.prefetched = has_info,
                       !.polled = "none",
                       !.torrent_info = IF has_info THEN torrent_info ELSE @,
                       !.left = range(max_retries)]
    IN  IF has_info /\ reached(torrent_info, target_status)
        THEN after_wait(g, torrent_info)
        ELSE wait_loop(g)

\* a status list that only knows downloaded
past_selection_only_downloaded(status) == status = "downloaded"

\* get_video_url_from_realdebrid line 542, negated: status in
\* ["queued", "downloading", "downloaded"]
past_selection(status) == status \in {"queued", "downloading", "downloaded"}

\* get_video_url_from_realdebrid lines 532-563 up to the next request, with
\* the handle found in the list or just registered
got_handle(f, torrent_info) ==
    LET g == [f EXCEPT !.torrent_info = torrent_info,
                       !.torrent_id = torrent_info.id,
                       !.status = torrent_info.status]
    IN  IF is_terminal(torrent_info.status)
        THEN [g EXCEPT !.pc = "delete_terminal"]
        ELSE IF ~past_selection(torrent_info.status)
        THEN wait_for_status(g, torrent_info.id, "waiting_files_selection",
                             TRUE, torrent_info, "select")
        ELSE wait_for_status(g, torrent_info.id, "downloaded",
                             FALSE, NoInfo, "downloaded")

\* _create_download_link lines 391-401 and create_download_link lines
\* 493-508, with the unrestrict request answered
got_download_link(f, response) ==
    LET g == [f EXCEPT !.response = response] IN
    CASE response.kind = "raise" -> RequestFailed(g, response.err)
      [] response.kind = "error" /\ response.error_code = 23 ->
             ProviderException(g, "Exceed remote traffic limit",
                               "exceed_remote_traffic_limit.mp4")
      [] response.kind = "download" ->
             IF ~is_video(response.mime)
             THEN [g EXCEPT !.pc = "delete_not_video"]
             ELSE IF response.download # "url"
             THEN ProviderException(g, "No download URL available",
                                    "transfer_error.mp4")
             ELSE return(g, "url")
      [] OTHER ->
             ProviderException(g, "Failed to create download link.",
                               "api_error.mp4")

Request(op, i, arg) == Append(requests, [op |-> op, i |-> i, arg |-> arg])

---------------------------------------------------------------------------
(* The resolver's requests, one action per awaited call *)

\* two info-hashes that differ at most in the case of their letters
same_hash(a, b) == a = b \/ {a, b} = {"Ab", "aB"}

\* what the user's torrent list held for ihash when it was fetched: kept
\* beside the frame so that the lookup's answer can be compared with it
hash_listed(available_torrents, ihash) ==
    IF \E k \in 1..Len(available_torrents) :
           same_hash(available_torrents[k].hash, ihash)
    THEN "yes" ELSE "no"

\* get_video_url_from_realdebrid line 525: get_available_torrent
ResolveLookup ==
    /\ frame.pc = "start"
    /\ requests' = Request("getUserTorrentList", "", "")
    /\ \E reply \in HandleListReplies, err \in RequestErrors :
         LET found == get_available_torrent(reply, info_hash)
             f == [frame EXCEPT !.listed = hash_listed(reply.value, info_hash)]
         IN
         frame' =
           CASE found.kind = "found" -> got_handle(f, InfoOfEntry(found.t))
             [] found.kind = "none" -> [f EXCEPT !.pc = "get_active_torrents"]
             [] found.exc = "ProviderException" -> RequestFailed(frame, err)
             [] OTHER -> raise(frame, found.exc, "", "")
    /\ UNCHANGED <<gvars, info_hash, max_retries, file_choice, call,
                   cvars>>

\* an add_new_torrent that tests the limit and not the active list
AddCheckActiveLimitOnly ==
    /\ frame.pc = "get_active_torrents"
    /\ requests' = Request("getActiveCount", "", "")
    /\ \E response \in ActiveReplies :
         LET f == [frame EXCEPT !.active =
                      [seen |-> TRUE, full |-> response.full,
                       listed |-> response.listed]] IN
         frame' =
           IF ~response.ok THEN RequestFailed(frame, response.err)
           ELSE IF response.full
           THEN ProviderException(f,
                    "Torrent limit reached. Please try again later.",
                    "torrent_limit.mp4")
           ELSE [f EXCEPT !.pc = "add_torrent"]
    /\ UNCHANGED <<gvars, info_hash, max_retries, file_choice, call,
                   cvars>>

\* add_new_torrent lines 580-588; active keeps what the activeCount reply
\* said: limit == nb (full) and info_hash in list (listed)
AddCheckActive ==
    /\ frame.pc = "get_active_torrents"
    /\ requests' = Request("getActiveCount", "", "")
    /\ \E response \in ActiveReplies :
         LET f == [frame EXCEPT !.active =
                      [seen |-> TRUE, full |-> response.full,
                       listed |-> response.listed]] IN
         frame' =
           IF ~response.ok THEN RequestFailed(frame, response.err)
           ELSE IF response.full
           THEN ProviderException(f,
                    "Torrent limit reached. Please try again later.",
                    "torrent_limit.mp4")
           ELSE IF response.listed
           THEN ProviderException(f,
                    "Torrent is already being downloading",
                    "torrent_not_downloaded.mp4")
           ELSE [f EXCEPT !.pc = "add_torrent"]
    /\ UNCHANGED <<gvars, info_hash, max_retries, file_choice, call,
                   cvars>>

\* add_new_torrent lines 590-598; torrent_file tells whether the stream the
\* caller passed holds a torrent file, which is read here and nowhere else
AddTorrent ==
    /\ frame.pc = "add_torrent"
    /\ \E torrent_file \in BOOLEAN :
         requests' = Request(IF torrent_file THEN "addTorrentFile"
                             ELSE "addMagnet", "", info_hash)
    /\ \E response \in AddReplies("T1") :
         LET f == [frame EXCEPT !.add_response = response.id] IN
         frame' =
           IF ~response.ok THEN RequestFailed(frame, response.err)
           ELSE IF no_id(response)
           THEN ProviderException(f,
                    "Failed to add magnet link to Real-Debrid",
                    "transfer_error.mp4")
           ELSE [f EXCEPT !.torrent_id = response.id, !.pc = "get_new_info"]
    /\ UNCHANGED <<gvars, info_hash, max_retries, file_choice, call,
                   cvars>>

\* add_new_torrent line 600, then get_video_url_from_realdebrid from line 532
AddGetInfo ==
    /\ frame.pc = "get_new_info"
    /\ requests' = Request("getTorrentInfo", frame.torrent_id, "")
    /\ \E response \in InfoReplies(frame.torrent_id) :
         frame' =
           IF ~response.ok THEN RequestFailed(frame, response.err)
           ELSE got_handle(frame, response.info)
    /\ UNCHANGED <<gvars, info_hash, max_retries, file_choice, call,
                   cvars>>

\* get_video_url_from_realdebrid lines 536-540
DeleteTerminal ==
    /\ frame.pc = "delete_terminal"
    /\ requests' = Request("deleteTorrent", frame.torrent_id, "")
    /\ \E response \in PlainReplies :
         frame' =
           IF ~response.ok THEN RequestFailed(frame, response.err)
           ELSE ProviderException(frame,
                    "Torrent cannot be downloaded due to status",
                    "transfer_error.mp4")
    /\ UNCHANGED <<gvars, info_hash, max_retries, file_choice, call,
                   cvars>>

\* a sleep that keeps the event loop to itself (time.sleep)
sleep_holds_loop_blocking(f) == f.pc = "sleep"

\* wait_for_status line 161, await asyncio.sleep(retry_interval): the
\* coroutine f is suspended and the event loop is free for the others
sleep_holds_loop(f) == FALSE

\* a loop that does not sleep after the last poll of its budget
poll_without_last_sleep(f, response) ==
    LET g == [f EXCEPT !.polled = response.info.status] IN
    IF ~response.ok THEN RequestFailed(f, response.err)
    ELSE IF reached(response.info, f.target)
    THEN after_wait(g, response.info)
    ELSE IF f.left = 1
    THEN ProviderException(g, did_not_reach(f.target),
                           "torrent_not_downloaded.mp4")
    ELSE [g EXCEPT !.pc = "sleep"]

\* wait_for_status lines 158-161 once the request of line 158 is over: it
\* raised, or the status is the target, or the sleep begins
poll(f, response) ==
    LET g == [f EXCEPT !.polled = response.info.status] IN
    IF ~response.ok THEN RequestFailed(f, response.err)
    ELSE IF reached(response.info, f.target)
    THEN after_wait(g, response.info)
    ELSE [g EXCEPT !.pc = "sleep"]

\* wait_for_status line 161 is over: the head of the loop, or line 162
sleep(f) == wait_loop([f EXCEPT !.left = @ - 1, !.polled = "none"])

\* wait_for_status lines 158-160: one poll
WaitPoll ==
    /\ frame.pc = "poll"
    /\ ~sleep_holds_loop(other)
    /\ requests' = Request("getTorrentInfo", frame.torrent_id, "")
    /\ \E response \in PollReplies(frame.torrent_id, frame.target) :
         frame' = poll(frame, response)
    /\ UNCHANGED <<gvars, info_hash, max_retries, file_choice, call,
                   cvars>>

\* wait_for_status line 161, then the head of the loop or line 162; polled
\* is the status the poll of the current iteration observed, and is not read
\* once the iteration is over
WaitSleep ==
    /\ frame.pc = "sleep"
    /\ ~sleep_holds_loop(other)
    /\ requests' = Request("sleep", frame.torrent_id, "")
    /\ frame' = sleep(frame)
    /\ UNCHANGED <<gvars, info_hash, max_retries, file_choice, call,
                   cvars>>

\* get_video_url_from_realdebrid lines 550-559 (the request of line 551)
StartDownload ==
    /\ frame.pc = "start_torrent_download"
    /\ requests' = Request("selectFiles", frame.torrent_info.id, "all")
    /\ \E response \in PlainReplies :
         frame' =
           IF ~response.ok
           THEN [frame EXCEPT !.pc = "delete_not_started",
                              !.error = response.err]
           ELSE wait_for_status(frame, frame.torrent_id, "downloaded",
                                FALSE, NoInfo, "downloaded")
    /\ UNCHANGED <<gvars, info_hash, max_retries, file_choice, call,
                   cvars>>

\* an except branch that re-raises without deleting the handle
DeleteNotStartedRaisesOnly ==
    /\ frame.pc = "delete_not_started"
    /\ frame' = ProviderException(frame, "Failed to start torrent download",
                                  "transfer_error.mp4")
    /\ UNCHANGED <<gvars, requests, info_hash, max_retries, file_choice, call,
                   cvars>>

\* get_video_url_from_realdebrid lines 555-559: the except branch, with the
\* ProviderException of the selectFiles request bound to error
DeleteNotStarted ==
    /\ frame.pc = "delete_not_started"
    /\ requests' = Request("deleteTorrent", frame.torrent_id, "")
    /\ \E response \in PlainReplies :
         frame' =
           IF ~response.ok THEN RequestFailed(frame, response.err)
           ELSE ProviderException(frame, "Failed to start torrent download",
                                  "transfer_error.mp4")
    /\ UNCHANGED <<gvars, info_hash, max_retries, file_choice, call,
                   cvars>>

\* create_download_link line 456
DeleteStale ==
    /\ frame.pc = "delete_stale"
    /\ requests' = Request("deleteTorrent", frame.torrent_info.id, "")
    /\ \E response \in PlainReplies :
         frame' =
           IF ~response.ok THEN RequestFailed(frame, response.err)
           ELSE [frame EXCEPT !.pc = "add_magnet_again"]
    /\ UNCHANGED <<gvars, info_hash, max_retries, file_choice, call,
                   cvars>>

\* create_download_link lines 457-467
AddMagnetAgain ==
    /\ frame.pc = "add_magnet_again"
    /\ requests' = Request("addMagnet", "", info_hash)
    /\ \E response \in AddReplies("T2") :
         LET f == [frame EXCEPT !.add_response = response.id] IN
         frame' =
           IF ~response.ok THEN RequestFailed(frame, response.err)
           ELSE IF id_not_in(response)
           THEN ProviderException(f, "Failed to add magnet link",
                                  "transfer_error.mp4")
           ELSE wait_for_status(f, response.id, "waiting_files_selection",
                                FALSE, NoInfo, "re_select")
    /\ UNCHANGED <<gvars, info_hash, max_retries, file_choice, call,
                   cvars>>

\* create_download_link lines 476-480
SelectOneFile ==
    /\ frame.pc = "select_one_file"
    /\ requests' = Request("selectFiles", frame.torrent_id,
                           ToString(frame.selected_file_index))
    /\ \E response \in PlainReplies :
         frame' =
           IF ~response.ok THEN RequestFailed(frame, response.err)
           ELSE wait_for_status(frame, frame.torrent_id, "downloaded",
                                FALSE, NoInfo, "re_downloaded")
    /\ UNCHANGED <<gvars, info_hash, max_retries, file_choice, call,
                   cvars>>

\* create_download_link line 491 to the end, short of the delete of line 495
Unrestrict ==
    /\ frame.pc = "unrestrict"
    /\ requests' = Request("createDownloadLink", frame.torrent_info.id,
                           ToString(frame.torrent_info.links[frame.link_index]))
    /\ \E response \in UnrestrictReplies :
         frame' = got_download_link(frame, response)
    /\ UNCHANGED <<gvars, info_hash, max_retries, file_choice, call,
                   cvars>>

\* create_download_link lines 495-499
DeleteNotVideo ==
    /\ frame.pc = "delete_not_video"
    /\ requests' = Request("deleteTorrent", frame.torrent_info.id, "")
    /\ \E response \in PlainReplies :
         frame' =
           IF ~response.ok THEN RequestFailed(frame, response.err)
           ELSE ProviderException(frame,
                    "Requested file is not a video file, deleting torrent and retrying.",
                    "torrent_not_downloaded.mp4")
    /\ UNCHANGED <<gvars, info_hash, max_retries, file_choice, call,
                   cvars>>

---------------------------------------------------------------------------
(* get_stream_links: the generator, its consumer and its environment *)

\* DebridService.session: the ClientSession of the instance, created on first use
session_created == IF _session = 0 THEN Append(sessions, 0) ELSE sessions
session == IF _session = 0 THEN Len(sessions) + 1 ELSE _session

\* a loop that never looks at the event
stop_is_set_ignored == FALSE

\* stop.is_set()
stop_is_set == stop

\* a loop that walks the list from its end
ForIndexReversed(k) == Len(torrents) - k + 1

\* a loop that takes the first item again and again
ForIndexRestart(k) == 1

\* the list index of the k-th item the for loop takes from torrents
ForIndex(k) == k

\* a finally block that never closes
finally_has_session_skipped == FALSE

\* the condition of the finally block of get_stream_links
finally_has_session == _session # 0

\* a loop that registers each torrent with the provider instead of looking
\* it up in the user's torrent list
for_loop_registering(k, pending) ==
    IF k >= Len(torrents)
    THEN /\ gpc' = "finally"
         /\ gend' = "exhausted"
         /\ it' = k
         /\ inflight' = pending
         /\ UNCHANGED <<_session, sessions, requests>>
    ELSE IF stop_is_set
    THEN /\ gpc' = "finally"
         /\ gend' = "stopped"
         /\ it' = k + 1
         /\ inflight' = pending
         /\ UNCHANGED <<_session, sessions, requests>>
    ELSE /\ gpc' = "await"
         /\ gend' = gend
         /\ it' = k + 1
         /\ sessions' = session_created
         /\ _session' = session
         /\ requests' = Append(requests,
                [op |-> "addMagnet", i |-> ForIndex(k + 1)])
         /\ inflight' = pending \cup {ForIndex(k + 1)}

\* Lines 104-111, from the head of the for loop with k items taken so far up
\* to the next suspension: the loop ends, or stop is seen, or the torrent list
\* request of get_stream_for_torrent is issued on the instance's session.
\* pending is the set of requests still without a reply.
for_loop(k, pending) ==
    IF k >= Len(torrents)
    THEN /\ gpc' = "finally"
         /\ gend' = "exhausted"
         /\ it' = k
         /\ inflight' = pending
         /\ UNCHANGED <<_session, sessions, requests>>
    ELSE IF stop_is_set
    THEN /\ gpc' = "finally"
         /\ gend' = "stopped"
         /\ it' = k + 1
         /\ inflight' = pending
         /\ UNCHANGED <<_session, sessions, requests>>
    ELSE /\ gpc' = "await"
         /\ gend' = gend
         /\ it' = k + 1
         /\ sessions' = session_created
         /\ _session' = session
         /\ requests' = Append(requests,
                [op |-> "getUserTorrentList", i |-> ForIndex(k + 1)])
         /\ inflight' = pending \cup {ForIndex(k + 1)}

\* initialize_headers with an OAuth token: get_token is the first request of
\* the instance and creates its session before any generator runs.
initialize_headers ==
    /\ UNCHANGED <<rvars, cvars>>
    /\ gpc = "created"
    /\ _session = 0
    /\ sessions' = session_created
    /\ _session' = session
    /\ UNCHANGED <<torrents, stop, max_results, gpc, it, gend, yielded,
                   requests, inflight, handle>>

\* The consumer's first __anext__: the body runs from line 88.
GenStart ==
    /\ UNCHANGED <<rvars, cvars>>
    /\ gpc = "created"
    /\ for_loop(0, inflight)
    /\ UNCHANGED <<torrents, stop, max_results, yielded, handle>>

\* The torrent list request answers; get_stream_for_torrent returns or raises,
\* and the generator yields, goes on with the loop, or leaves the try block.
GenReply ==
    /\ UNCHANGED <<rvars, cvars>>
    /\ gpc = "await"
    /\ \E reply \in ListReplies :
         LET i == ForIndex(it)
             found == get_available_torrent(reply, torrents[i])
             stream_link == get_stream_for_torrent(reply, torrents[i])
         IN  /\ handle' = [i |-> i, found |-> found.kind = "found",
                         id |-> found.t.id, status |-> found.t.status]
             /\ CASE stream_link.kind = "link" ->
                       /\ yielded' = Append(yielded,
                              [i |-> i, link |-> stream_link.link])
                       /\ gpc' = "yield"
                       /\ inflight' = inflight \ {i}
                       /\ UNCHANGED <<it, gend, _session, sessions, requests>>
                  [] stream_link.kind = "none" ->
                       /\ yielded' = yielded
                       /\ for_loop(it, inflight \ {i})
                  [] stream_link.kind = "raise" ->
                       /\ yielded' = yielded
                       /\ gpc' = "finally"
                       /\ gend' = stream_link.exc
                       /\ inflight' = inflight \ {i}
                       /\ UNCHANGED <<it, _session, sessions, requests>>
    /\ UNCHANGED <<torrents, stop, max_results>>

\* The consumer asks for the next item: the generator resumes after the yield.
GenNext ==
    /\ UNCHANGED <<rvars, cvars>>
    /\ gpc = "yield"
    /\ for_loop(it, inflight)
    /\ UNCHANGED <<torrents, stop, max_results, yielded, handle>>

\* The consumer abandons the generator (break, aclose): GeneratorExit is
\* raised at the yield and the try block is left.
GenClose ==
    /\ UNCHANGED <<rvars, cvars>>
    /\ gpc = "yield"
    /\ gpc' = "finally"
    /\ gend' = "abandoned"
    /\ UNCHANGED <<torrents, stop, max_results, it, _session, sessions,
                   yielded, requests, inflight, handle>>

\* Lines 115-119: the finally block.
GenFinally ==
    /\ UNCHANGED <<rvars, cvars>>
    /\ gpc = "finally"
    /\ IF finally_has_session
       THEN /\ sessions' = [sessions EXCEPT ![_session] = @ + 1]
            /\ _session' = 0
       ELSE UNCHANGED <<_session, sessions>>
    /\ gpc' = "done"
    /\ UNCHANGED <<torrents, stop, max_results, it, gend, yielded, requests,
                   inflight, handle>>

\* The caller (or anyone holding the event) sets stop.
SetStop ==
    /\ UNCHANGED <<rvars, cvars>>
    /\ gpc # "done"
    /\ ~stop
    /\ stop' = TRUE
    /\ UNCHANGED <<torrents, max_results, gpc, it, gend, _session, sessions,
                   yielded, requests, inflight, handle>>

---------------------------------------------------------------------------
(* DebridService._make_request: one call, its attempts and its result *)

\* what one attempt of session.request meets: an exception raised before any
\* response, or a response with a status, a Content-Type and a body
NoOutcome ==
    [kind |-> "none", status |-> 0, content_type |-> "none", body |-> "none",
     code_kind |-> "none", code |-> 0]

HttpStatuses == {200, 401, 404, 500, 502, 503, 504}

ContentTypes ==
    {"application/json", "application/json; charset=utf-8", "text/html"}

\* the error_code values a JSON object may carry: integers around the
\* provider's table, a string, or no error_code key
ErrorCodes == (0 - 2)..39

ErrorData ==
    [code_kind : {"int"}, code : ErrorCodes] \cup
    [code_kind : {"str", "missing"}, code : {0}]

\* bodies: a JSON object, a JSON value that is not an object, or no JSON
Responses ==
    [kind : {"response"}, status : HttpStatuses, content_type : ContentTypes,
     body : {"dict"}, code_kind : {"int"}, code : ErrorCodes]
    \cup
    [kind : {"response"}, status : HttpStatuses, content_type : ContentTypes,
     body : {"dict"}, code_kind : {"str", "missing"}, code : {0}]
    \cup
    [kind : {"response"}, status : HttpStatuses, content_type : ContentTypes,
     body : {"list", "invalid"}, code_kind : {"none"}, code : {0}]

\* aiohttp.ClientConnectorError, asyncio.TimeoutError, another ClientError
RequestExceptions ==
    [kind : {"ClientConnectorError", "TimeoutError", "ClientError"},
     status : {0}, content_type : {"none"}, body : {"none"},
     code_kind : {"none"}, code : {0}]

NoData == [code_kind |-> "none", code |-> 0]

\* the result of the call: a returned value, or a raised exception with the
\* payload its message is formatted from
NoOutput ==
    [kind |-> "running", exc |-> "", message |-> "", video |-> "",
     value |-> "", carried |-> NoData]

NoCall ==
    [pc |-> "idle", is_return_none |-> FALSE, is_expected_to_fail |-> FALSE,
     is_http_response |-> FALSE, retry_count |-> 0, attempts |-> <<>>,
     result |-> NoOutput]

raised(message, video, value, carried) ==
    [kind |-> "raise", exc |-> "ProviderException", message |-> message,
     video |-> video, value |-> value, carried |-> carried]

returned(value) ==
    [kind |-> "return", exc |-> "", message |-> "", video |-> "",
     value |-> value, carried |-> NoData]

\* _handle_service_specific_errors lines 188-227: code -> (message, video)
error_mapping ==
    [c \in {0 - 1} \cup 1..37 |->
       CASE c = 0 - 1 -> <<"Internal error", "api_error.mp4">>
         [] c = 1 -> <<"Missing parameter", "api_error.mp4">>
         [] c = 2 -> <<"Bad parameter value", "api_error.mp4">>
         [] c = 3 -> <<"Unknown method", "api_error.mp4">>
         [] c = 4 -> <<"Method not allowed", "api_error.mp4">>
         [] c = 5 -> <<"Slow down", "too_many_requests.mp4">>
         [] c = 6 -> <<"Resource unreachable", "api_error.mp4">>
         [] c = 7 -> <<"Resource not found", "file_error.mp4">>
         [] c = 8 -> <<"Bad token (expired, invalid)", "invalid_token.mp4">>
         [] c = 9 -> <<"Permission denied", "invalid_token.mp4">>
         [] c = 10 -> <<"Two-factor authentication needed", "auth_error.mp4">>
         [] c = 11 -> <<"Two-factor authentication pending", "auth_error.mp4">>
         [] c = 12 -> <<"Invalid login", "auth_error.mp4">>
         [] c = 13 -> <<"Invalid password", "auth_error.mp4">>
         [] c = 14 -> <<"Account locked", "account_error.mp4">>
         [] c = 15 -> <<"Account not activated", "account_error.mp4">>
         [] c = 16 -> <<"Unsupported hoster", "hoster_error.mp4">>
         [] c = 17 -> <<"Hoster in maintenance", "hoster_error.mp4">>
         [] c = 18 -> <<"Hoster limit reached", "hoster_error.mp4">>
         [] c = 19 -> <<"Hoster temporarily unavailable", "hoster_error.mp4">>
         [] c = 20 -> <<"Hoster not available for free users", "hoster_error.mp4">>
         [] c = 21 -> <<"Too many active downloads", "torrent_limit.mp4">>
         [] c = 22 -> <<"IP Address not allowed", "ip_not_allowed.mp4">>
         [] c = 23 -> <<"Traffic exhausted", "traffic_error.mp4">>
         [] c = 24 -> <<"File unavailable", "file_error.mp4">>
         [] c = 25 -> <<"Service unavailable", "service_error.mp4">>
         [] c = 26 -> <<"Upload too big", "upload_error.mp4">>
         [] c = 27 -> <<"Upload error", "upload_error.mp4">>
         [] c = 28 -> <<"File not allowed", "file_error.mp4">>
         [] c = 29 -> <<"Torrent too big", "torrent_error.mp4">>
         [] c = 30 -> <<"Torrent file invalid", "transfer_error.mp4">>
         [] c = 31 -> <<"Action already done", "action_error.mp4">>
         [] c = 32 -> <<"Image resolution error", "image_error.mp4">>
         [] c = 33 -> <<"Torrent already active", "torrent_error.mp4">>
         [] c = 34 -> <<"Too many requests", "too_many_requests.mp4">>
         [] c = 35 -> <<"Infringing file", "content_infringing.mp4">>
         [] c = 36 -> <<"Fair Usage Limit", "too_many_requests.mp4">>
         [] c = 37 -> <<"Disabled endpoint", "api_error.mp4">>]

\* a table test that misses the last code
in_error_mapping_below_37(error_data) ==
    error_data.code_kind = "int" /\ error_data.code \in 1..36

\* line 229: error_code in error_mapping (a str or a missing code is no key)
in_error_mapping(error_data) ==
    error_data.code_kind = "int" /\ error_data.code \in DOMAIN error_mapping

\* a handler that raises for the codes of the table only and returns for
\* every other body
_handle_service_specific_errors_known_only(error_data) ==
    IF in_error_mapping(error_data)
    THEN raised(error_mapping[error_data.code][1],
                error_mapping[error_data.code][2], "", NoData)
    ELSE returned("ok")

\* _handle_service_specific_errors lines 229-235: always raises
_handle_service_specific_errors(error_data) ==
    IF in_error_mapping(error_data)
    THEN raised(error_mapping[error_data.code][1],
                error_mapping[error_data.code][2], "", NoData)
    ELSE raised("Unknown error", "api_error.mp4", "", error_data)

\* a handler that lets every exception it has no message for go on as it is
_handle_request_error_reraising(error) ==
    IF error = "TimeoutError"
    THEN raised("Request timed out.", "torrent_not_downloaded.mp4", "", NoData)
    ELSE IF error = "ClientConnectorError"
    THEN raised("Failed to connect to Debrid service.",
                "debrid_service_down_error.mp4", "", NoData)
    ELSE [kind |-> "raise", exc |-> error, message |-> "", video |-> "",
          value |-> "", carried |-> NoData]

\* _handle_request_error lines 108-116
_handle_request_error(error) ==
    IF error = "TimeoutError"
    THEN raised("Request timed out.", "torrent_not_downloaded.mp4", "", NoData)
    ELSE IF error = "ClientConnectorError"
    THEN raised("Failed to connect to Debrid service.",
                "debrid_service_down_error.mp4", "", NoData)
    ELSE raised("Request error", "api_error.mp4", error, NoData)

\* response.json(): the Content-Type must be a JSON one and the body JSON
json_parses(response) ==
    /\ response.content_type \in
         {"application/json", "application/json; charset=utf-8"}
    /\ response.body \in {"dict", "list"}

\* _check_response_status lines 78-106: "ok" when nothing is raised, else
\* the exception as _make_request surfaces it
_check_response_status(response, is_expected_to_fail) ==
    IF response.status < 400 THEN returned("ok")
    ELSE IF is_expected_to_fail THEN returned("ok")
    ELSE IF response.content_type = "application/json"
    THEN \* lines 89-90: response.json(), then the provider's table
         IF ~json_parses(response)
         THEN _handle_request_error("JSONDecodeError")
         ELSE IF response.body # "dict"
         THEN _handle_request_error("AttributeError")
         ELSE _handle_service_specific_errors(
                  [code_kind |-> response.code_kind, code |-> response.code])
    ELSE IF response.status = 401
    THEN raised("Invalid token", "invalid_token.mp4", "", NoData)
    ELSE IF response.status \in {502, 503, 504}
    THEN raised("Debrid service is down.", "debrid_service_down_error.mp4",
                "", NoData)
    ELSE raised("API Error", "api_error.mp4", "text", NoData)

\* a parser that fails on every body that is not JSON
_parse_response_strict(response, is_return_none, is_expected_to_fail, is_http_response) ==
    IF json_parses(response) THEN returned("json")
    ELSE raised("Failed to parse response error", "api_error.mp4", "text",
                NoData)

\* _parse_response lines 118-141
_parse_response(response, is_return_none, is_expected_to_fail, is_http_response) ==
    IF is_return_none THEN returned("{}")
    ELSE IF json_parses(response) THEN returned("json")
    ELSE IF is_http_response THEN returned("text")
    ELSE IF is_expected_to_fail THEN returned("text")
    ELSE raised("Failed to parse response error", "api_error.mp4", "text",
                NoData)

\* a retry test that allows a third attempt
retry_count_below_two(retry_count) == retry_count < 2

\* _make_request line 59: if retry_count < 1
retry_count_below_one(retry_count) == retry_count < 1

\* a handler that takes a timeout for a failure to connect
is_connector_or_timeout(error) ==
    error.kind \in {"ClientConnectorError", "TimeoutError"}

\* _make_request line 58: except aiohttp.ClientConnectorError
is_connector_error(error) == error.kind = "ClientConnectorError"

\* _make_request lines 48-53 and 72-75: session.request raises before any
\* response; only a failure to connect is tried again
RequestRaises ==
    /\ call.pc = "request"
    /\ \E error \in RequestExceptions :
         LET c == [call EXCEPT !.attempts = Append(@, error)] IN
         call' =
           IF is_connector_error(error)
              /\ retry_count_below_one(call.retry_count)
           THEN [c EXCEPT !.retry_count = @ + 1]
           ELSE [c EXCEPT !.pc = "done",
                          !.result = _handle_request_error(error.kind)]
    /\ _session' = session
    /\ sessions' = session_created
    /\ UNCHANGED <<torrents, stop, max_results, gpc, it, gend, yielded,
                   inflight, handle, requests>>
    /\ UNCHANGED <<info_hash, max_retries, file_choice, frame,
                   cvars>>

\* _make_request lines 48-57: a response arrives, its status is checked and
\* its body parsed
RequestAnswered ==
    /\ call.pc = "request"
    /\ \E response \in Responses :
         LET checked == _check_response_status(response,
                                               call.is_expected_to_fail)
         IN  call' =
               [call EXCEPT
                  !.attempts = Append(@, response),
                  !.pc = "done",
                  !.result =
                     IF checked.kind = "raise" THEN checked
                     ELSE _parse_response(response, call.is_return_none,
                                          call.is_expected_to_fail,
                                          call.is_http_response)]
    /\ _session' = session
    /\ sessions' = session_created
    /\ UNCHANGED <<torrents, stop, max_results, gpc, it, gend, yielded,
                   inflight, handle, requests>>
    /\ UNCHANGED <<info_hash, max_retries, file_choice, frame,
                   cvars>>

\* The event is set while wait_for_status is polling or sleeping; the log
\* keeps the moment, so that the polls that follow can be counted.
StopDuringWait ==
    /\ frame.pc \in {"poll", "sleep"}
    /\ ~stop
    /\ stop' = TRUE
    /\ requests' = Request("stop.set", frame.torrent_id, "")
    /\ UNCHANGED <<torrents, max_results, gpc, it, gend, _session, sessions,
                   yielded, inflight, handle>>
    /\ UNCHANGED <<rvars, cvars>>

---------------------------------------------------------------------------
(* RealDebridProvider.delete_all_watchlist_rd: one delete task per listed    *)
(* torrent, all started by asyncio.gather and gated by one semaphore         *)

MaxWatchlist == 4

\* a semaphore that lets every task through
locked_never(value) == FALSE

\* asyncio.Semaphore.locked(), the test of acquire() under "async with
\* semaphore": a task goes on only while the value is positive
locked(value) == value = 0

\* the delete_torrent tasks whose deleteTorrent request has no reply yet
InFlight == {k \in DOMAIN delete_tasks : delete_tasks[k] = "deleting"}

\* lines 640-641 and the list comprehension of line 648: the torrent list
\* answers, the semaphore is created with value 3 and gather starts one task
\* per element; a ProviderException of the list request leaves the function
DeleteList ==
    /\ dpc = "list"
    /\ requests' = Request("getUserTorrentList", 0, "")
    /\ \/ \E n \in 0..MaxWatchlist :
             /\ delete_tasks' = [k \in 1..n |-> "created"]
             /\ semaphore' = 3
             /\ dpc' = "gather"
       \/ /\ dpc' = "raised"
          /\ UNCHANGED <<semaphore, delete_tasks>>
    /\ UNCHANGED <<gvars, rvars, peer, other, request_args, with_block>>

\* lines 644-645: a task enters "async with semaphore" and its deleteTorrent
\* request, for the torrent at place k of the list, is issued
DeleteAcquire ==
    /\ dpc = "gather"
    /\ \E k \in DOMAIN delete_tasks :
         /\ delete_tasks[k] = "created"
         /\ ~locked(semaphore)
         /\ semaphore' = semaphore - 1
         /\ delete_tasks' = [delete_tasks EXCEPT ![k] = "deleting"]
         /\ requests' = Request("deleteTorrent", k, "")
    /\ UNCHANGED <<dpc, gvars, rvars, peer, other, request_args, with_block>>

\* line 645 answers or raises; leaving the with block releases the semaphore
\* either way
DeleteRelease ==
    /\ dpc = "gather"
    /\ \E k \in DOMAIN delete_tasks, outcome \in {"done", "failed"} :
         /\ delete_tasks[k] = "deleting"
         /\ semaphore' = semaphore + 1
         /\ delete_tasks' = [delete_tasks EXCEPT ![k] = outcome]
    /\ UNCHANGED <<dpc, gvars, requests, rvars, peer, other, request_args, with_block>>

\* a gather without return_exceptions: the first exception of a task leaves
\* the function while the other tasks go on
DeleteGatheredRaising ==
    /\ dpc = "gather"
    /\ IF \E k \in DOMAIN delete_tasks : delete_tasks[k] = "failed"
       THEN dpc' = "raised"
       ELSE /\ \A k \in DOMAIN delete_tasks : delete_tasks[k] = "done"
            /\ dpc' = "done"
    /\ UNCHANGED <<semaphore, delete_tasks, gvars, requests, rvars, peer, other,
                   request_args, with_block>>

\* lines 647-650: gather(return_exceptions=True) returns once every task is
\* over, whatever its outcome
DeleteGathered ==
    /\ dpc = "gather"
    /\ \A k \in DOMAIN delete_tasks : delete_tasks[k] \in {"done", "failed"}
    /\ dpc' = "done"
    /\ UNCHANGED <<semaphore, delete_tasks, gvars, requests, rvars, peer, other,
                   request_args, with_block>>

\* delete_all_watchlist_rd is not running
DeleterIdle ==
    /\ dpc = "none"
    /\ semaphore = 0
    /\ delete_tasks = <<>>

---------------------------------------------------------------------------
(* A second coroutine of the same provider instance: one _make_request call  *)
(* that runs beside the generator and shares DebridService._session          *)

NoPeer == [pc |-> "none", session |-> 0, on_closed |-> FALSE]

\* the event loop runs one coroutine at a time: another coroutine takes a
\* step only while the generator is not started, awaits its request, is
\* suspended at its yield, or is over (no await lies between the end of the
\* try block and the test of line 117)
generator_suspended == gpc \in {"created", "await", "yield", "done"}

\* _make_request lines 48-50: self.session.request(...) takes the session of
\* the instance, creating it when _session is None, and the request is on its
\* way; on_closed tells whether that session had been closed already
PeerRequest ==
    /\ peer.pc = "ready"
    /\ generator_suspended
    /\ sessions' = session_created
    /\ _session' = session
    /\ peer' = [pc |-> "sent", session |-> session,
                on_closed |-> session_created[session] > 0]
    /\ UNCHANGED <<torrents, stop, max_results, gpc, it, gend, yielded,
                   inflight, handle, requests, rvars, dpc, semaphore,
                   delete_tasks, other, request_args, with_block>>

\* _make_request lines 51-55: the request is over, with a response or with an
\* exception
PeerResponse ==
    /\ peer.pc = "sent"
    /\ generator_suspended
    /\ peer' = [peer EXCEPT !.pc = "done"]
    /\ UNCHANGED <<gvars, requests, rvars, dpc, semaphore, delete_tasks, other,
                   request_args, with_block>>

\* no second coroutine uses the instance
PeerIdle == peer = NoPeer

---------------------------------------------------------------------------
(* RealDebridProvider.make_request: the ip parameter of POST and PUT         *)

\* values of the data argument: None, a str, a FormData, or a dict given by
\* its items; callers tells whether the object is the one the caller holds
NoItems == [k \in {} |-> ""]

DictItems ==
    {NoItems, [k \in {"test"} |-> "data"], [k \in {"ip"} |-> "9.9.9.9"],
     [k \in {"test", "ip"} |-> IF k = "ip" THEN "9.9.9.9" ELSE "data"]}

DataValues ==
    [kind : {"None", "str", "FormData"}, items : {NoItems}, callers : {TRUE}]
    \cup [kind : {"dict"}, items : DictItems, callers : {TRUE}]

Methods == {"GET", "POST", "PUT", "DELETE"}

\* source_ip of the instance: None (the default of __init__), the empty
\* string of the registry instance, or an address
SourceIps == {None, "", "1.1.1.1"}

\* **kwargs as the request wrappers pass them
Kwargs ==
    {[is_return_none |-> FALSE, is_expected_to_fail |-> FALSE,
      is_http_response |-> FALSE],
     [is_return_none |-> TRUE, is_expected_to_fail |-> FALSE,
      is_http_response |-> FALSE]}

NoForward == [method |-> "", url |-> "", data |-> [kind |-> "None",
              items |-> NoItems, callers |-> FALSE], kwargs |-> {}]

\* make_request is not called
NoArgs ==
    [pc |-> "none", method |-> "", url |-> "", source_ip |-> None,
     data |-> [kind |-> "None", items |-> NoItems, callers |-> FALSE],
     kwargs |-> {}, caller_items |-> NoItems, forwarded |-> NoForward]

\* an assignment that copies nothing: the local name keeps the caller's dict
dict_same_object(d) == d

\* dict(data), line 246: a new dict with the same items
dict(d) == [d EXCEPT !.callers = FALSE]

\* data["ip"] = value, line 247
setitem(d, key, value) ==
    [d EXCEPT !.items = [k \in DOMAIN d.items \cup {key} |->
                            IF k = key THEN value ELSE d.items[k]]]

\* the truth value of a str or None
truthy(v) == v \notin {None, ""}

\* line 244: method in ["POST", "PUT"] and self.source_ip
adds_ip(method, source_ip) == method \in {"POST", "PUT"} /\ truthy(source_ip)

\* lines 244-250: the value of the local name data when _make_request is
\* called
data_to_forward(method, data, source_ip) ==
    IF adds_ip(method, source_ip)
    THEN IF data.kind = "dict" THEN setitem(dict(data), "ip", source_ip)
         ELSE IF data.kind = "None"
         THEN [kind |-> "dict", items |-> [k \in {"ip"} |-> source_ip],
               callers |-> FALSE]
         ELSE data
    ELSE data

\* lines 237-251: make_request runs up to its call of _make_request, which
\* starts with the flags of kwargs; caller_items is what the caller's object
\* holds afterwards
MakeRequest ==
    /\ request_args.pc = "called"
    /\ LET a == request_args
           d == data_to_forward(a.method, a.data, a.source_ip)
       IN  /\ request_args' =
                [a EXCEPT !.pc = "forwarded",
                          !.caller_items =
                             IF d.callers THEN d.items ELSE a.data.items,
                          !.forwarded = [method |-> a.method, url |-> a.url,
                                         data |-> d, kwargs |-> a.kwargs]]
           /\ call' = [NoCall EXCEPT
                         !.pc = "request",
                         !.is_return_none = a.kwargs.is_return_none,
                         !.is_expected_to_fail = a.kwargs.is_expected_to_fail,
                         !.is_http_response = a.kwargs.is_http_response]
    /\ UNCHANGED <<gvars, requests, info_hash, max_retries,
                   file_choice, frame, dpc, semaphore, delete_tasks, peer,
                   other, with_block>>

---------------------------------------------------------------------------
(* A second resolution in wait_for_status, polling another torrent while the *)
(* first one polls its own                                                   *)

\* wait_for_status lines 158-160 in the second coroutine
OtherPoll ==
    /\ other.pc = "poll"
    /\ ~sleep_holds_loop(frame)
    /\ requests' = Request("getTorrentInfo", other.torrent_id, "")
    /\ \E response \in PollReplies(other.torrent_id, other.target) :
         other' = poll(other, response)
    /\ UNCHANGED <<gvars, rvars, dpc, semaphore, delete_tasks, peer,
                   request_args, with_block>>

\* wait_for_status line 161 in the second coroutine
OtherSleep ==
    /\ other.pc = "sleep"
    /\ ~sleep_holds_loop(frame)
    /\ requests' = Request("sleep", other.torrent_id, "")
    /\ other' = sleep(other)
    /\ UNCHANGED <<gvars, rvars, dpc, semaphore, delete_tasks, peer,
                   request_args, with_block>>

\* no second resolution is waiting
OtherIdle == other = IdleFrame

\* no resolver is running
ResolverIdle ==
    /\ info_hash = ""
    /\ max_retries = 0
    /\ file_choice = 1
    /\ frame = IdleFrame
    /\ call = NoCall

\* no async with block is open on the provider
NoBlock == [pc |-> "none", exit |-> "none"]

\* the methods class DebridService defines; its only base is ABC
DebridServiceMethods ==
    {"__str__", "__init__", "session", "_make_request",
     "_check_response_status", "_handle_request_error", "_parse_response",
     "wait_for_status", "get_torrent_info", "_handle_service_specific_errors",
     "shared_cache", "short_name", "name", "id", "get_stream_links"}

\* RealDebridProvider.__aenter__ lines 43-47: without a session it awaits
\* initialize_headers, which with an OAuth token makes the get_token request
\* on a new session and with a private token makes no request
__aenter__ ==
    /\ with_block.pc = "outside"
    /\ with_block' = [with_block EXCEPT !.pc = "body"]
    /\ IF _session = 0
       THEN \/ /\ sessions' = session_created
               /\ _session' = session
            \/ UNCHANGED <<_session, sessions>>
       ELSE UNCHANGED <<_session, sessions>>
    /\ UNCHANGED <<torrents, stop, max_results, gpc, it, gend, yielded,
                   inflight, handle, requests, rvars, dpc, semaphore,
                   delete_tasks, peer, other, request_args>>

\* RealDebridProvider.__aexit__ lines 49-54, after a body that raised
\* nothing and awaits nothing any more: an open session is closed and
\* forgotten, then super().__aexit__ is looked up in the base classes
__aexit__ ==
    /\ with_block.pc = "body"
    /\ gpc \in {"created", "yield", "done"}
    /\ IF _session # 0
       THEN /\ sessions' = [sessions EXCEPT ![_session] = @ + 1]
            /\ _session' = 0
       ELSE UNCHANGED <<_session, sessions>>
    /\ with_block' =
         [pc |-> "exited",
          exit |-> IF "__aexit__" \in DebridServiceMethods
                   THEN "returned" ELSE "AttributeError"]
    /\ UNCHANGED <<torrents, stop, max_results, gpc, it, gend, yielded,
                   inflight, handle, requests, rvars, dpc, semaphore,
                   delete_tasks, peer, other, request_args>>

\* no generator exists
GeneratorIdle ==
    /\ torrents = <<>>
    /\ max_results = 0
    /\ stop = FALSE
    /\ gpc = "none"
    /\ it = 0
    /\ gend = "running"
    /\ _session = 0
    /\ sessions = <<>>
    /\ yielded = <<>>
    /\ inflight = {}
    /\ handle = [i |-> 0, found |-> FALSE, id |-> "", status |-> "none"]

Init ==
    /\ ResolverIdle
    /\ DeleterIdle
    /\ PeerIdle
    /\ OtherIdle
    /\ request_args = NoArgs
    /\ with_block = NoBlock
    /\ torrents \in SeqsUpTo(TorrentInputs, MaxTorrents)
    /\ max_results \in 0..MaxResults
    /\ stop = FALSE
    /\ gpc = "created"
    /\ it = 0
    /\ gend = "running"
    /\ _session = 0
    /\ sessions = <<>>
    /\ yielded = <<>>
    /\ requests = <<>>
    /\ inflight = {}
    /\ handle = [i |-> 0, found |-> FALSE, id |-> "", status |-> "none"]

Next ==
    \/ initialize_headers
    \/ GenStart
    \/ GenReply
    \/ GenNext
    \/ GenClose
    \/ GenFinally
    \/ SetStop

Spec == Init /\ [][Next]_vars

\* Spec with a consumer that keeps iterating or closes the generator, and a
\* provider whose every request returns: the generator's own steps are taken
\* once they can be; nobody has to set stop or to initialise the headers
SpecFair ==
    /\ Spec
    /\ WF_vars(GenStart)
    /\ WF_vars(GenReply)
    /\ WF_vars(GenNext \/ GenClose)
    /\ WF_vars(GenFinally)

\* get_video_url_from_realdebrid called for one torrent
InitResolve ==
    /\ GeneratorIdle
    /\ DeleterIdle
    /\ PeerIdle
    /\ OtherIdle
    /\ request_args = NoArgs
    /\ with_block = NoBlock
    /\ requests = <<>>
    /\ info_hash = "Ab"
    /\ max_retries \in 0..MaxRetries
    /\ file_choice \in 1..MaxFiles
    /\ frame = [IdleFrame EXCEPT !.pc = "start"]
    /\ call = NoCall

NextResolve ==
    \/ ResolveLookup
    \/ AddCheckActive
    \/ AddTorrent
    \/ AddGetInfo
    \/ DeleteTerminal
    \/ WaitPoll
    \/ WaitSleep
    \/ StartDownload
    \/ DeleteNotStarted
    \/ DeleteStale
    \/ AddMagnetAgain
    \/ SelectOneFile
    \/ Unrestrict
    \/ DeleteNotVideo

SpecResolve == InitResolve /\ [][NextResolve]_vars

\* wait_for_status called on its own, with or without a pre-fetched handle
InitWait ==
    /\ GeneratorIdle
    /\ DeleterIdle
    /\ PeerIdle
    /\ OtherIdle
    /\ request_args = NoArgs
    /\ with_block = NoBlock
    /\ requests = <<>>
    /\ info_hash = ""
    /\ file_choice = 1
    /\ call = NoCall
    /\ max_retries \in 0..MaxRetries
    /\ \E target_status \in {"waiting_files_selection", "downloaded"} :
          \/ frame = wait_for_status(IdleFrame, "T1", target_status, FALSE,
                                     NoInfo, "standalone")
          \/ \E torrent_info \in TorrentInfos("T1") :
                frame = wait_for_status(IdleFrame, "T1", target_status, TRUE,
                                        torrent_info, "standalone")

NextWait ==
    \/ WaitPoll
    \/ WaitSleep
    \/ StopDuringWait

SpecWait == InitWait /\ [][NextWait]_vars

\* _make_request called once, with any combination of its three flags
InitRequest ==
    /\ GeneratorIdle
    /\ DeleterIdle
    /\ PeerIdle
    /\ OtherIdle
    /\ request_args = NoArgs
    /\ with_block = NoBlock
    /\ requests = <<>>
    /\ info_hash = ""
    /\ max_retries = 0
    /\ file_choice = 1
    /\ frame = IdleFrame
    /\ \E is_return_none \in BOOLEAN, is_expected_to_fail \in BOOLEAN,
          is_http_response \in BOOLEAN :
         call = [NoCall EXCEPT !.pc = "request",
                               !.is_return_none = is_return_none,
                               !.is_expected_to_fail = is_expected_to_fail,
                               !.is_http_response = is_http_response]

NextRequest ==
    \/ RequestRaises
    \/ RequestAnswered

SpecRequest == InitRequest /\ [][NextRequest]_vars

\* delete_all_watchlist_rd called once
InitDelete ==
    /\ GeneratorIdle
    /\ ResolverIdle
    /\ requests = <<>>
    /\ PeerIdle
    /\ OtherIdle
    /\ request_args = NoArgs
    /\ with_block = NoBlock
    /\ dpc = "list"
    /\ semaphore = 0
    /\ delete_tasks = <<>>

NextDelete ==
    \/ DeleteList
    \/ DeleteAcquire
    \/ DeleteRelease
    \/ DeleteGathered

SpecDelete == InitDelete /\ [][NextDelete]_vars

\* get_stream_links consumed while another coroutine makes a request on the
\* same provider instance
InitShared ==
    /\ ResolverIdle
    /\ DeleterIdle
    /\ OtherIdle
    /\ request_args = NoArgs
    /\ with_block = NoBlock
    /\ peer = [NoPeer EXCEPT !.pc = "ready"]
    /\ torrents \in SeqsUpTo(TorrentInputs, MaxTorrents)
    /\ max_results = MaxResults
    /\ stop = FALSE
    /\ gpc = "created"
    /\ it = 0
    /\ gend = "running"
    /\ _session = 0
    /\ sessions = <<>>
    /\ yielded = <<>>
    /\ requests = <<>>
    /\ inflight = {}
    /\ handle = [i |-> 0, found |-> FALSE, id |-> "", status |-> "none"]

NextShared ==
    \/ Next
    \/ PeerRequest
    \/ PeerResponse

SpecShared == InitShared /\ [][NextShared]_vars

\* get_stream_links consumed inside "async with provider", as the
\* integration tests use the provider
InitContext ==
    /\ ResolverIdle
    /\ DeleterIdle
    /\ PeerIdle
    /\ OtherIdle
    /\ request_args = NoArgs
    /\ with_block = [NoBlock EXCEPT !.pc = "outside"]
    /\ torrents \in SeqsUpTo(TorrentInputs, MaxTorrents)
    /\ max_results = MaxResults
    /\ stop = FALSE
    /\ gpc = "created"
    /\ it = 0
    /\ gend = "running"
    /\ _session = 0
    /\ sessions = <<>>
    /\ yielded = <<>>
    /\ requests = <<>>
    /\ inflight = {}
    /\ handle = [i |-> 0, found |-> FALSE, id |-> "", status |-> "none"]

NextContext ==
    \/ __aenter__
    \/ with_block.pc = "body" /\ Next
    \/ __aexit__

SpecContext == InitContext /\ [][NextContext]_vars

\* two resolutions in wait_for_status at once, each for its own torrent
InitBoth ==
    /\ GeneratorIdle
    /\ DeleterIdle
    /\ PeerIdle
    /\ request_args = NoArgs
    /\ with_block = NoBlock
    /\ requests = <<>>
    /\ info_hash = ""
    /\ file_choice = 1
    /\ call = NoCall
    /\ max_retries \in 0..MaxRetries
    /\ \E target_status \in {"waiting_files_selection", "downloaded"} :
          frame = wait_for_status(IdleFrame, "T1", target_status, FALSE,
                                  NoInfo, "standalone")
    /\ \E target_status \in {"waiting_files_selection", "downloaded"} :
          other = wait_for_status(IdleFrame, "T2", target_status, FALSE,
                                  NoInfo, "standalone")

NextBoth ==
    \/ WaitPoll
    \/ WaitSleep
    \/ OtherPoll
    \/ OtherSleep

SpecBoth == InitBoth /\ [][NextBoth]_vars

\* make_request called once, on instances with and without a source_ip
InitMakeRequest ==
    /\ GeneratorIdle
    /\ with_block = NoBlock
    /\ ResolverIdle
    /\ DeleterIdle
    /\ PeerIdle
    /\ OtherIdle
    /\ requests = <<>>
    /\ \E method \in Methods, url \in {"test_url", "other_url"},
          data \in DataValues, kwargs \in Kwargs, source_ip \in SourceIps :
         request_args =
           [NoArgs EXCEPT !.pc = "called", !.method = method, !.url = url,
                          !.data = data, !.kwargs = kwargs,
                          !.source_ip = source_ip,
                          !.caller_items = data.items]

NextMakeRequest ==
    \/ MakeRequest
    \/ RequestRaises
    \/ RequestAnswered

SpecMakeRequest == InitMakeRequest /\ [][NextMakeRequest]_vars

---------------------------------------------------------------------------
(* Claims about get_stream_links, checked under Spec *)

RequestsOf(op, i) ==
    {j \in 1..Len(requests) : requests[j].op = op /\ requests[j].i = i}

YieldedOf(i) == {j \in 1..Len(yielded) : yielded[j].i = i}

\* C1: over its whole run get_stream_links yields at most max_results
\* StreamLinks and at most len(torrents).
C1_YieldCap ==
    /\ Len(yielded) <= max_results
    /\ Len(yielded) <= Len(torrents)

\* C2: once stop is set, no torrent list request is issued any more (no
\* torrent that had not begun is started), and what was yielded stays as it
\* was: later steps only append to it.
C2_StopBeforeTorrent ==
    [][/\ stop => requests' = requests
       /\ Len(yielded') >= Len(yielded)
       /\ SubSeq(yielded', 1, Len(yielded)) = yielded]_vars

C2_Witness ==
    /\ gpc = "done"
    /\ gend = "stopped"
    /\ Len(yielded) >= 1
    /\ Len(requests) < Len(torrents)

\* C3: no failure of a single torrent's resolution escapes the generator: it
\* leaves its try block only by exhaustion, by stop or by the consumer's close.
C3_NoFailureEscapes ==
    gend \in {"running", "exhausted", "stopped", "abandoned"}

\* C4: torrents are resolved one at a time in input order: at most one
\* request is without reply, the j-th request is for the j-th torrent, every
\* yielded link belongs to a torrent before the one in flight, and the
\* yielded links are in the order of their torrents.
C4_SequentialInOrder ==
    /\ Cardinality(inflight) <= 1
    /\ \A j \in 1..Len(requests) : requests[j].i = j
    /\ \A i \in inflight : \A j \in 1..Len(yielded) : yielded[j].i < i
    /\ \A j \in 1..Len(yielded) : \A k \in 1..Len(yielded) :
         j < k => yielded[j].i < yielded[k].i

C4_Witness ==
    /\ Len(requests) = 2
    /\ Len(yielded) = 2
    /\ yielded[1].i = 1
    /\ yielded[2].i = 2

\* C5: a generator that has left its try block and finished its finally
\* block leaves _session None and every session created closed exactly once;
\* before that no session is closed.
C5_SessionClosedOnce ==
    /\ gpc = "done" =>
         /\ _session = 0
         /\ \A s \in 1..Len(sessions) : sessions[s] = 1
    /\ gpc \notin {"done"} =>
         \A s \in 1..Len(sessions) : sessions[s] = 0

C5_Witness ==
    /\ gpc = "done"
    /\ gend = "abandoned"
    /\ Len(sessions) = 1
    /\ sessions[1] = 1

\* C6: a torrent whose handle reports magnet_error, error, virus or dead is
\* never yielded, and exactly one deleteTorrent request is issued for it.
C6_TerminalHandleDeleted ==
    (handle.found /\ handle.status \in TerminalStatuses) =>
        /\ YieldedOf(handle.i) = {}
        /\ Cardinality(RequestsOf("deleteTorrent", handle.i)) = 1

\* C9: every yielded StreamLink belongs to a torrent for which a download
\* link was requested from the provider (and came back as a video).
C9_YieldedFromDownloadLink ==
    \A j \in 1..Len(yielded) :
        RequestsOf("createDownloadLink", yielded[j].i) # {}

---------------------------------------------------------------------------
(* Claims about get_video_url_from_realdebrid and create_download_link,
   checked under SpecResolve *)

OpsOf(op) == {j \in 1..Len(requests) : requests[j].op = op}

LastRequestIs(op, i) ==
    /\ requests # <<>>
    /\ requests[Len(requests)].op = op
    /\ requests[Len(requests)].i = i

RequestErrorRaised ==
    /\ frame.result.kind = "raise"
    /\ frame.result.exc = "ProviderException"
    /\ \E err \in RequestErrors :
         /\ frame.result.message = err.message
         /\ frame.result.video = err.video

\* the only getTorrentInfo a resolver may have issued without polling: the
\* one add_new_torrent makes right after registering the torrent
NoStatusPoll ==
    /\ OpsOf("sleep") = {}
    /\ \A j \in OpsOf("getTorrentInfo") :
         /\ j > 1
         /\ requests[j - 1].op \in {"addMagnet", "addTorrentFile"}
    /\ Cardinality(OpsOf("getTorrentInfo")) <= 1

\* C7 (as stated): a resolver whose handle, found or just registered, has
\* status magnet_error, error, virus or dead deletes it and ends with the
\* transfer error.
C7_TerminalFailsTransferError ==
    (frame.pc = "done" /\ frame.status \in TerminalStatuses) =>
        /\ LastRequestIs("deleteTorrent", frame.torrent_id)
        /\ frame.result.kind = "raise"
        /\ frame.result.video = "transfer_error.mp4"

\* C7 (amended): a resolver whose handle, found or just registered, has
\* status magnet_error, error, virus or dead issues exactly one deleteTorrent
\* request for it, and no selectFiles request, no status poll and no
\* createDownloadLink request; it ends with the transfer error when the
\* deleteTorrent request is answered, and with that request's own error when
\* it is not.
C7_TerminalHandleDeleted ==
    frame.status \in TerminalStatuses =>
        /\ frame.pc \in {"delete_terminal", "done"}
        /\ OpsOf("selectFiles") = {}
        /\ OpsOf("createDownloadLink") = {}
        /\ NoStatusPoll
        /\ frame.pc = "delete_terminal" => OpsOf("deleteTorrent") = {}
        /\ frame.pc = "done" =>
             /\ Cardinality(OpsOf("deleteTorrent")) = 1
             /\ LastRequestIs("deleteTorrent", frame.torrent_id)
             /\ \/ /\ frame.result.kind = "raise"
                   /\ frame.result.exc = "ProviderException"
                   /\ frame.result.message =
                        "Torrent cannot be downloaded due to status"
                   /\ frame.result.video = "transfer_error.mp4"
                \/ RequestErrorRaised

C7_Witness ==
    /\ frame.pc = "done"
    /\ frame.status = "dead"
    /\ OpsOf("addMagnet") # {}
    /\ LastRequestIs("deleteTorrent", "T1")
    /\ frame.result.video = "transfer_error.mp4"

\* an unrestrict reply whose mimeType is missing, not a string, or does not
\* start with "video"
NotAVideoReply ==
    /\ frame.response.kind = "download"
    /\ \/ frame.response.mime.kind # "str"
       \/ Len(frame.response.mime.text) < Len(Video)
       \/ \E k \in 1..Len(Video) : frame.response.mime.text[k] # Video[k]

\* C8 (as stated): after an unrestrict reply that is not a video,
\* create_download_link returns no URL, issues a deleteTorrent for the
\* torrent and ends with the torrent-not-downloaded error.
C8_NotVideoFailsNotDownloaded ==
    (frame.pc = "done" /\ NotAVideoReply) =>
        /\ frame.result.kind = "raise"
        /\ LastRequestIs("deleteTorrent", frame.torrent_info.id)
        /\ frame.result.video = "torrent_not_downloaded.mp4"

\* C8 (amended): after an unrestrict reply whose mimeType is missing, not a
\* string, or does not start with "video", create_download_link never
\* returns a URL; its next and last request is a deleteTorrent for the
\* torrent, and it ends with the torrent-not-downloaded error when that
\* request is answered, and with that request's own error when it is not.
C8_NotVideoNeverReturned ==
    NotAVideoReply =>
        /\ frame.pc \in {"delete_not_video", "done"}
        /\ frame.result.kind # "return"
        /\ frame.pc = "delete_not_video" =>
             LastRequestIs("createDownloadLink", frame.torrent_info.id)
        /\ frame.pc = "done" =>
             /\ LastRequestIs("deleteTorrent", frame.torrent_info.id)
             /\ requests[Len(requests) - 1].op = "createDownloadLink"
             /\ \/ /\ frame.result.kind = "raise"
                   /\ frame.result.exc = "ProviderException"
                   /\ frame.result.message =
                        "Requested file is not a video file, deleting torrent and retrying."
                   /\ frame.result.video = "torrent_not_downloaded.mp4"
                \/ RequestErrorRaised

C8_Witness ==
    /\ frame.pc = "done"
    /\ frame.response.kind = "download"
    /\ frame.response.mime.kind = "str"
    /\ frame.response.mime.text = MimeXVideo
    /\ frame.response.download = "url"
    /\ LastRequestIs("deleteTorrent", frame.torrent_info.id)
    /\ frame.result.video = "torrent_not_downloaded.mp4"

---------------------------------------------------------------------------
(* Claims about wait_for_status, checked under SpecWait *)

\* C10: wait_for_status called without a pre-fetched handle never issues more
\* than max_retries getTorrentInfo requests; it returns only a handle in the
\* target status; and unless a request fails or the target status is
\* reported, it ends after exactly max_retries requests, each followed by a
\* sleep, with the torrent-not-downloaded error "did not reach target
\* status".
C10_PollsExactlyMaxRetries ==
    ~frame.prefetched =>
        /\ Cardinality(OpsOf("getTorrentInfo")) <= max_retries
        /\ frame.pc = "done" =>
             \/ /\ frame.result.kind = "return"
                /\ frame.torrent_info.status = frame.target
                /\ OpsOf("getTorrentInfo") # {}
             \/ RequestErrorRaised
             \/ /\ frame.result.kind = "raise"
                /\ frame.result.exc = "ProviderException"
                /\ frame.result.message = did_not_reach(frame.target)
                /\ frame.result.video = "torrent_not_downloaded.mp4"
                /\ Cardinality(OpsOf("getTorrentInfo")) = max_retries
                /\ Cardinality(OpsOf("sleep")) = max_retries

C10_Witness ==
    /\ ~frame.prefetched
    /\ frame.pc = "done"
    /\ frame.result.message = did_not_reach("downloaded")
    /\ max_retries >= 2
    /\ Cardinality(OpsOf("getTorrentInfo")) = max_retries

\* C11: a poll of wait_for_status that observes magnet_error, error, virus or
\* dead ends the wait at once with the torrent-not-downloaded error: the wait
\* never goes to sleep, nor polls again, after such a reply.
C11_TerminalPollFails ==
    frame.polled \in TerminalStatuses =>
        /\ frame.pc = "done"
        /\ frame.result.kind = "raise"
        /\ frame.result.video = "torrent_not_downloaded.mp4"
        /\ requests[Len(requests)].op = "getTorrentInfo"

\* C12: wait_for_status returns only a handle whose status is the target,
\* and a poll that observes the target ends the wait with that return: the
\* poll is the last entry of the log, no request and no sleep follows it.
C12_ReturnsAtFirstTarget ==
    /\ frame.result.kind = "return" =>
         /\ frame.pc = "done"
         /\ frame.torrent_info.status = frame.target
         /\ \/ frame.prefetched /\ requests = <<>>
            \/ /\ requests # <<>>
               /\ requests[Len(requests)].op = "getTorrentInfo"
               /\ frame.polled = frame.target
    /\ frame.polled = frame.target =>
         /\ frame.pc = "done"
         /\ frame.result.kind = "return"

C12_Witness ==
    /\ frame.pc = "done"
    /\ frame.result.kind = "return"
    /\ frame.target = "downloaded"
    /\ frame.torrent_info.status = "downloaded"
    /\ Cardinality(OpsOf("getTorrentInfo")) = 2
    /\ Cardinality(OpsOf("sleep")) = 1

\* C13: once stop is set while a torrent is being polled, at most one more
\* poll cycle follows: at most one getTorrentInfo and at most one sleep are
\* logged after the event was set.
C13_StopEndsPolling ==
    \A j \in OpsOf("stop.set") :
        /\ Cardinality({k \in OpsOf("getTorrentInfo") : k > j}) <= 1
        /\ Cardinality({k \in OpsOf("sleep") : k > j}) <= 1

---------------------------------------------------------------------------
(* Claims about _make_request, checked under SpecRequest *)

Attempts == Len(call.attempts)

LastAttempt == call.attempts[Attempts]

Answered == call.pc = "done" /\ LastAttempt.kind = "response"

Raised(message, video) ==
    /\ call.result.kind = "raise"
    /\ call.result.exc = "ProviderException"
    /\ call.result.message = message
    /\ call.result.video = video

\* a body response.json() cannot give: not JSON, or not announced as JSON
NotJson(response) ==
    response.body = "invalid" \/ response.content_type = "text/html"

\* C14: _make_request makes at most two attempts; a second attempt follows
\* a first that failed to connect, and only that; a call whose first attempt
\* failed to connect does not end before its second; and when the second
\* fails to connect too, the call fails with the failed-to-connect error.
C14_RetriesConnectOnce ==
    /\ Attempts <= 2
    /\ Attempts = 2 => call.attempts[1].kind = "ClientConnectorError"
    /\ (call.pc = "done" /\ call.attempts[1].kind = "ClientConnectorError")
         => Attempts = 2
    /\ (Attempts = 2 /\ call.attempts[2].kind = "ClientConnectorError") =>
         /\ call.pc = "done"
         /\ Raised("Failed to connect to Debrid service.",
                   "debrid_service_down_error.mp4")

C14_Witness ==
    /\ call.pc = "done"
    /\ Attempts = 2
    /\ call.attempts[1].kind = "ClientConnectorError"
    /\ call.attempts[2].kind = "ClientConnectorError"

\* C15 (as stated): an attempt that ends in a timeout, an error status or a
\* body that is not JSON is the last one, and the call ends with an error.
C15_NoRetrySurfacedAsError ==
    \A k \in 1..Attempts :
        LET a == call.attempts[k] IN
        (\/ a.kind = "TimeoutError"
         \/ a.kind = "response" /\ a.status >= 400
         \/ a.kind = "response" /\ NotJson(a)) =>
            /\ k = Attempts
            /\ call.pc = "done"
            /\ call.result.kind = "raise"

\* C15 (amended): an attempt that ends in a timeout, an error status or a
\* body that is not JSON is never followed by another attempt. The call ends
\* with an error after a timeout, after an error status when
\* is_expected_to_fail is false, and after a body that is not JSON when
\* is_expected_to_fail, is_http_response and is_return_none are all false;
\* with is_expected_to_fail true neither an error status nor such a body
\* makes it fail.
C15_NoRetryOfOtherFailures ==
    \A k \in 1..Attempts :
        LET a == call.attempts[k] IN
        (\/ a.kind = "TimeoutError"
         \/ a.kind = "response" /\ a.status >= 400
         \/ a.kind = "response" /\ NotJson(a)) =>
            /\ k = Attempts
            /\ call.pc = "done"
            /\ a.kind = "TimeoutError" =>
                 Raised("Request timed out.", "torrent_not_downloaded.mp4")
            /\ (a.kind = "response" /\ a.status >= 400
                    /\ ~call.is_expected_to_fail) =>
                 call.result.kind = "raise"
            /\ (a.kind = "response" /\ NotJson(a)
                    /\ ~call.is_expected_to_fail /\ ~call.is_http_response
                    /\ ~call.is_return_none) =>
                 call.result.kind = "raise"
            /\ (a.kind = "response" /\ call.is_expected_to_fail) =>
                 call.result.kind = "return"

C15_Witness ==
    /\ call.pc = "done"
    /\ Attempts = 2
    /\ call.attempts[1].kind = "ClientConnectorError"
    /\ call.attempts[2].kind = "TimeoutError"
    /\ call.result.message = "Request timed out."

\* C16: with is_expected_to_fail false, a response with status 401 fails as
\* the invalid-token error and one with status 502, 503 or 504 as the
\* service-down error, whatever its Content-Type and body; any other error
\* status fails as the API error carrying the decoded body.
C16_StatusDecidesError ==
    (Answered /\ ~call.is_expected_to_fail /\ LastAttempt.status >= 400) =>
        IF LastAttempt.status = 401
        THEN Raised("Invalid token", "invalid_token.mp4")
        ELSE IF LastAttempt.status \in {502, 503, 504}
        THEN Raised("Debrid service is down.",
                    "debrid_service_down_error.mp4")
        ELSE Raised("API Error", "api_error.mp4")

\* C17: with is_expected_to_fail true a response never makes the call fail,
\* and a body that is not JSON comes back as its text; with
\* is_expected_to_fail and is_http_response false a body that is not JSON,
\* under a status that is no error, fails as the API error; with
\* is_return_none true whatever the call returns is the empty object. (The
\* first two parts are read for is_return_none false, the case the third
\* part sets apart.)
C17_ParseByFlags ==
    Answered =>
        /\ call.is_expected_to_fail =>
             /\ call.result.kind = "return"
             /\ (NotJson(LastAttempt) /\ ~call.is_return_none) =>
                  call.result.value = "text"
        /\ (~call.is_expected_to_fail /\ ~call.is_http_response
               /\ ~call.is_return_none /\ LastAttempt.status < 400
               /\ NotJson(LastAttempt)) =>
             Raised("Failed to parse response error", "api_error.mp4")
        /\ (call.is_return_none /\ call.result.kind = "return") =>
             call.result.value = "{}"
        /\ (call.is_return_none /\ LastAttempt.status < 400) =>
             call.result.kind = "return"

C17_Witness ==
    /\ Answered
    /\ call.is_expected_to_fail
    /\ ~call.is_return_none
    /\ LastAttempt.status = 500
    /\ LastAttempt.body = "invalid"
    /\ call.result.kind = "return"
    /\ call.result.value = "text"

\* the error body _handle_service_specific_errors is given: the JSON object
\* of an error response announced as application/json
Classified ==
    /\ Answered
    /\ ~call.is_expected_to_fail
    /\ LastAttempt.status >= 400
    /\ LastAttempt.content_type = "application/json"
    /\ LastAttempt.body = "dict"

---------------------------------------------------------------------------
(* Claims about registration and link creation in a batch *)

\* C19: a torrent is yielded only after a download link was created for it:
\* a torrent whose createDownloadLink request the provider refuses with
\* error code 23 yields no StreamLink, so no torrent has more yields than
\* createDownloadLink requests. Checked under Spec.
C19_NoYieldWithoutLinkCreated ==
    \A i \in 1..Len(torrents) :
        Cardinality(YieldedOf(i))
            <= Cardinality(RequestsOf("createDownloadLink", i))

AddOps == OpsOf("addMagnet") \cup OpsOf("addTorrentFile")

---------------------------------------------------------------------------
(* Claims about the resolver's file selection and handle lookup, checked
   under SpecResolve *)

\* C21: every selectFiles request names a single file id, never all files,
\* and is sent only after a poll (a getTorrentInfo request for the same
\* torrent) has preceded it.
C21_SelectsChosenFileOnly ==
    \A j \in OpsOf("selectFiles") :
        /\ requests[j].arg # "all"
        /\ \E k \in OpsOf("getTorrentInfo") :
             k < j /\ requests[k].i = requests[j].i

\* the place of the createDownloadLink request in the log, or the place it
\* will take
LinkRequestAt ==
    IF OpsOf("createDownloadLink") = {} THEN Len(requests) + 1
    ELSE CHOOSE j \in OpsOf("createDownloadLink") : TRUE

DeletesBeforeLink == {j \in OpsOf("deleteTorrent") : j < LinkRequestAt}

\* the chosen file is not selected, or selected files and links differ in
\* number
Mismatch(files, links, chosen) ==
    \/ files[chosen] # 1
    \/ Cardinality({k \in DOMAIN files : files[k] = 1}) # Len(links)

FirstAddAt == CHOOSE a \in AddOps : \A b \in AddOps : a <= b

\* C23: when the user's torrent list holds a handle whose hash equals
\* info_hash up to the case of its letters, that handle's status is examined
\* and no activeCount or registration request is issued, unless the handle
\* is deleted later on; when the list holds no such handle, the resolver
\* goes on to register the torrent; and a first registration happens only
\* when the list held no such handle.
C23_LookupIgnoresCase ==
    LET adds == AddOps
        deletes == OpsOf("deleteTorrent")
    IN  /\ frame.listed = "yes" =>
             /\ frame.status # "none"
             /\ \A j \in DOMAIN requests : requests[j].op # "getActiveCount"
             /\ \A a \in adds : \E d \in deletes : d < a
        /\ frame.listed = "no" =>
             /\ Len(requests) = 1 => frame.pc = "get_active_torrents"
             /\ Len(requests) >= 2 => requests[2].op = "getActiveCount"
        /\ (adds # {} /\ \A d \in deletes : \E a \in adds : a < d) =>
             frame.listed = "no"

C23_Witness ==
    /\ info_hash = "Ab"
    /\ frame.listed = "yes"
    /\ frame.status = "downloading"
    /\ frame.pc = "done"
    /\ frame.result.kind = "return"
    /\ AddOps = {}

\* C24: a handle found or registered in status queued or downloading gets no
\* selectFiles request (unless it is deleted and re-created later): the
\* resolver polls it for downloaded; and while a wait targets downloaded, a
\* poll that observes queued or downloading is followed by the sleep and
\* the next iteration, not by a failure, the wait failing only when no
\* iteration is left.
C24_InProgressIsPolled ==
    /\ frame.status \in {"queued", "downloading"} =>
         /\ \A j \in OpsOf("selectFiles") :
              \E d \in OpsOf("deleteTorrent") : d < j
         /\ frame.pc \in {"poll", "sleep"} /\ OpsOf("deleteTorrent") = {}
              => frame.target = "downloaded"
         /\ (frame.pc = "done" /\ OpsOf("getTorrentInfo") = {}) =>
              \/ RequestErrorRaised
              \/ max_retries = 0 /\ frame.result.message
                                      = did_not_reach("downloaded")
    /\ (frame.target = "downloaded"
           /\ frame.polled \in {"queued", "downloading"}) =>
         /\ frame.pc = "sleep"
         /\ frame.result.kind = "running"
    /\ (frame.pc = "done" /\ frame.target = "downloaded"
           /\ frame.result.message = did_not_reach("downloaded")) =>
         frame.left = 0

C24_Witness ==
    /\ frame.status = "queued"
    /\ frame.pc = "done"
    /\ frame.result.kind = "return"
    /\ OpsOf("selectFiles") = {}
    /\ Cardinality(OpsOf("sleep")) = 1

---------------------------------------------------------------------------
(* Claims about delete_all_watchlist_rd, checked under SpecDelete *)

\* C25: at no moment of delete_all_watchlist_rd are more than 3 deleteTorrent
\* requests in flight, whatever the length of the torrent list and the
\* interleaving of the delete tasks.
C25_AtMostThreeInFlight == Cardinality(InFlight) <= 3

\* a list longer than the semaphore's value: three requests are in flight and
\* a fourth task is held back
C25_Witness ==
    /\ Len(delete_tasks) > 3
    /\ Cardinality(InFlight) = 3
    /\ locked(semaphore)
    /\ \E k \in DOMAIN delete_tasks : delete_tasks[k] = "created"

---------------------------------------------------------------------------
(* Claims about the shared session, checked under SpecShared *)

\* C26: the session of a provider instance is safe for concurrent reuse: the
\* teardown of a generator never closes a session on which another coroutine
\* still has a request in flight, and no request is issued on a closed session.
C26_SessionSafeForReuse ==
    /\ peer.pc = "sent" => sessions[peer.session] = 0
    /\ ~peer.on_closed

---------------------------------------------------------------------------
(* Claims about two concurrent waits, checked under SpecBoth *)

\* the positions of the log where op was issued for torrent id
LogOf(op, id) ==
    {k \in DOMAIN requests : requests[k].op = op /\ requests[k].i = id}

\* what a wait shows of its own torrent alone: its polls and sleeps in the
\* log are those its own loop counter accounts for, a return hands back the
\* handle of its own torrent at the target status, seen by its own last
\* poll, and the timeout comes after max_retries polls and sleeps of its own
OwnOutcome(w) ==
    LET polls == Cardinality(LogOf("getTorrentInfo", w.torrent_id))
        sleeps == Cardinality(LogOf("sleep", w.torrent_id))
    IN  /\ w.pc = "poll" =>
              polls = sleeps /\ sleeps = range(max_retries) - w.left
        /\ w.pc = "sleep" =>
              /\ polls = sleeps + 1
              /\ sleeps = range(max_retries) - w.left
              /\ w.polled # w.target
        /\ (w.pc = "done" /\ w.result.kind = "return") =>
              /\ w.polled = w.target
              /\ w.torrent_info.id = w.torrent_id
              /\ w.torrent_info.status = w.target
              /\ polls = sleeps + 1
        /\ (w.pc = "done" /\ w.result.message = did_not_reach(w.target)) =>
              polls = range(max_retries) /\ sleeps = range(max_retries)

---------------------------------------------------------------------------
(* Claims about the yielded StreamLink, checked under Spec *)

\* the filename and byte size the provider lists for a handle
ListedFile(id) ==
    IF id = "T1" THEN [name |-> "f.mkv", size |-> 7]
    ELSE [name |-> "lead.mkv", size |-> 9]

\* the download URL of a POST /unrestrict/link answer, as a path
DownloadUrl == <<"url">>

\* C28: for a single input torrent whose handle the provider reports as
\* downloaded with a link, the one StreamLink get_stream_links yields has the
\* provider's filename as name, its byte size as size and its download URL
\* as url.
C28_YieldsProviderLink ==
    (/\ Len(torrents) = 1
     /\ handle.found
     /\ handle.status = "downloaded"
     /\ yielded # <<>>)
    => /\ Len(yielded) = 1
       /\ yielded[1].link.name = ListedFile(handle.id).name
       /\ yielded[1].link.size = ListedFile(handle.id).size
       /\ yielded[1].link.url = DownloadUrl

---------------------------------------------------------------------------
(* Claims about termination, checked under SpecFair *)

\* each input torrent is taken at most once: one torrent list request and at
\* most one yielded link per list index, and no more items taken than the
\* list holds
SinglePass ==
    /\ it <= Len(torrents)
    /\ Len(requests) <= Len(torrents)
    /\ \A i \in 1..Len(torrents) :
         /\ Cardinality(RequestsOf("getUserTorrentList", i)) <= 1
         /\ Cardinality(YieldedOf(i)) <= 1

\* C29: for every finite torrent list, provided every provider request
\* eventually returns, get_stream_links eventually terminates, and it makes
\* a single pass: each input torrent is processed at most once per call.
C29_TerminatesSinglePass == <>(gpc = "done") /\ []SinglePass

\* a run over two torrents that took both, one after the other, and ended
C29_Witness ==
    /\ gpc = "done"
    /\ gend = "exhausted"
    /\ Len(torrents) = 2
    /\ Len(requests) = 2
    /\ requests[1].i = 1
    /\ requests[2].i = 2

---------------------------------------------------------------------------
(* Claims about make_request, checked under SpecMakeRequest *)

\* the items of a dict with ip set to value
WithIp(items, value) ==
    [k \in DOMAIN items \cup {"ip"} |-> IF k = "ip" THEN value ELSE items[k]]

\* C30: on a provider with a source_ip, make_request adds ip = source_ip to
\* the data of every POST and PUT request (a dict gets the extra key, absent
\* data becomes {ip}), leaves str and FormData data and the data of all other
\* methods unchanged, forwards method, url and the other arguments unchanged,
\* and never mutates the dict passed by the caller.
C30_AddsIpToPostAndPut ==
    LET a == request_args
        f == request_args.forwarded
    IN  (a.pc = "forwarded" /\ a.source_ip = "1.1.1.1") =>
          /\ f.method = a.method
          /\ f.url = a.url
          /\ f.kwargs = a.kwargs
          /\ a.caller_items = a.data.items
          /\ (a.method \in {"POST", "PUT"} /\ a.data.kind = "dict") =>
                /\ f.data.kind = "dict"
                /\ f.data.items = WithIp(a.data.items, "1.1.1.1")
          /\ (a.method \in {"POST", "PUT"} /\ a.data.kind = "None") =>
                /\ f.data.kind = "dict"
                /\ f.data.items = [k \in {"ip"} |-> "1.1.1.1"]
          /\ (a.method \notin {"POST", "PUT"}
              \/ a.data.kind \in {"str", "FormData"}) =>
                /\ f.data.kind = a.data.kind
                /\ f.data.items = a.data.items

\* the first call of test_make_request_with_source_ip: POST with
\* {"test": "data"} is forwarded with the ip added
C30_Witness ==
    /\ request_args.pc = "forwarded"
    /\ request_args.source_ip = "1.1.1.1"
    /\ request_args.method = "POST"
    /\ request_args.url = "test_url"
    /\ request_args.data.kind = "dict"
    /\ DOMAIN request_args.data.items = {"test"}
    /\ DOMAIN request_args.forwarded.data.items = {"test", "ip"}
    /\ request_args.forwarded.data.items["ip"] = "1.1.1.1"
    /\ DOMAIN request_args.caller_items = {"test"}

---------------------------------------------------------------------------
(* Claims about _handle_service_specific_errors, checked under SpecRequest *)

\* the messages of the error table
TableMessages == {error_mapping[c][1] : c \in DOMAIN error_mapping}

\* C31: _handle_service_specific_errors never returns normally: for every
\* error body (a code of the table, any other code, no code) under every
\* error status the call ends with the handler's ProviderException (a
\* message of the table or the unknown error), so the status tests that
\* follow the handler are never reached.
C31_HandlerAlwaysRaises ==
    Classified =>
        /\ call.result.kind = "raise"
        /\ call.result.exc = "ProviderException"
        /\ call.result.message \in TableMessages \cup {"Unknown error"}
        /\ call.result.message \notin
             {"Invalid token", "Debrid service is down.", "API Error"}

\* test_error_handling: status 500 with a body without error_code
C31_Witness ==
    /\ Classified
    /\ LastAttempt.status = 500
    /\ LastAttempt.code_kind = "missing"
    /\ Raised("Unknown error", "api_error.mp4")

\* C32: under status 401 an error body without error_code fails as the
\* invalid-token error, not as the unknown error.
C32_Status401IsInvalidToken ==
    (Classified /\ LastAttempt.status = 401
        /\ LastAttempt.code_kind = "missing") =>
        /\ call.result.kind = "raise"
        /\ call.result.video = "invalid_token.mp4"
        /\ call.result.message # "Unknown error"

---------------------------------------------------------------------------
(* Claims about the provider as an async context manager, checked under      *)
(* SpecContext                                                               *)

\* C33: when the body raises nothing, leaving the async with block closes
\* every open session, leaves _session = None and completes without
\* raising, whether no session was opened, one is still open, or a
\* generator inside the block has closed it already.
C33_ContextExitCompletes ==
    with_block.pc = "exited" =>
        /\ with_block.exit = "returned"
        /\ _session = 0
        /\ \A k \in DOMAIN sessions : sessions[k] >= 1

---------------------------------------------------------------------------
(* Further claims about get_stream_links, checked under Spec *)

\* C34: get_stream_links never changes provider-side state: every provider
\* request it issues is getUserTorrentList, one for each torrent it
\* processed and in the order of the list (a torrent at which the loop saw
\* stop set is taken from the list but not processed); it issues no
\* addMagnet, addTorrentFile, selectFiles, createDownloadLink or
\* deleteTorrent.
C34_OnlyListsTorrents ==
    /\ \A j \in DOMAIN requests :
          /\ requests[j].op = "getUserTorrentList"
          /\ requests[j].op \notin
               {"addMagnet", "addTorrentFile", "selectFiles",
                "createDownloadLink", "deleteTorrent"}
          /\ requests[j].i = j
    /\ Len(requests) = IF gend = "stopped" THEN it - 1 ELSE it

\* a run over two torrents, the first yielded and the second not, that ended
\* with two list requests
C34_Witness ==
    /\ gpc = "done"
    /\ gend = "exhausted"
    /\ Len(torrents) = 2
    /\ Len(yielded) = 1
    /\ yielded[1].i = 1
    /\ Len(requests) = 2
    /\ requests[2].op = "getUserTorrentList"

---------------------------------------------------------------------------
(* Further claims about wait_for_status, checked under SpecWait *)

\* the wait was given a pre-fetched handle that is at the target status (a
\* wait given any other handle holds a handle at the target only once one of
\* its polls has observed the target)
PrefetchedAtTarget ==
    /\ frame.prefetched
    /\ frame.polled # frame.target
    /\ frame.torrent_info.status = frame.target

\* C35: wait_for_status given a pre-fetched handle already at the target
\* status returns that handle with no getTorrentInfo request and no sleep,
\* even when max_retries is 0; given a pre-fetched handle not at the target,
\* the look at it uses none of the budget: the first poll has all
\* max_retries iterations before it, at most max_retries requests follow,
\* and the did-not-reach failure comes after exactly max_retries of them.
C35_PrefetchedCostsNothing ==
    frame.prefetched =>
        LET polls == Cardinality(OpsOf("getTorrentInfo"))
            sleeps == Cardinality(OpsOf("sleep"))
        IN  IF PrefetchedAtTarget
            THEN /\ frame.pc = "done"
                 /\ frame.result.kind = "return"
                 /\ frame.result.value = "torrent_info"
                 /\ polls = 0
                 /\ sleeps = 0
            ELSE /\ polls <= max_retries
                 /\ frame.pc = "poll" => polls + frame.left = max_retries
                 /\ (frame.pc = "poll" /\ polls = 0) =>
                       frame.left = max_retries
                 /\ (frame.pc = "done"
                        /\ frame.result.message = did_not_reach(frame.target))
                      => polls = max_retries
                 /\ (frame.pc = "done" /\ frame.result.kind = "return") =>
                       polls >= 1

\* with max_retries 0, a pre-fetched handle at the target is returned
C35_Witness ==
    /\ max_retries = 0
    /\ PrefetchedAtTarget
    /\ frame.target = "waiting_files_selection"
    /\ frame.pc = "done"
    /\ frame.result.kind = "return"
    /\ requests = <<>>

\* a pre-fetched handle not at the target, then max_retries polls
C35_WitnessBudget ==
    /\ frame.prefetched
    /\ ~PrefetchedAtTarget
    /\ max_retries = 2
    /\ frame.pc = "done"
    /\ frame.result.message = did_not_reach(frame.target)
    /\ Cardinality(OpsOf("getTorrentInfo")) = 2

\* C36: in wait_for_status every poll that reports a status other than the
\* target is followed by one sleep before anything else the wait does, the
\* last poll of the budget included: a wait that fails as did-not-reach
\* after n polls has slept n times, and a wait that returns at its k-th poll
\* has slept k-1 times. (A poll whose request raises reports no status: the
\* wait ends with that exception, after one sleep less than polls.)
C36_SleepAfterEveryMiss ==
    LET polls == OpsOf("getTorrentInfo")
        sleeps == OpsOf("sleep")
    IN  /\ \A j \in polls : \A k \in polls :
              j < k => \E z \in sleeps : j < z /\ z < k
        /\ \A y \in sleeps : \A z \in sleeps :
              y < z => \E j \in polls : y < j /\ j < z
        /\ \A z \in sleeps : \E j \in polls : j < z
        /\ frame.pc = "poll" => Cardinality(sleeps) = Cardinality(polls)
        /\ frame.pc = "sleep" =>
              /\ Cardinality(polls) = Cardinality(sleeps) + 1
              /\ frame.polled # frame.target
        /\ (frame.pc = "done"
               /\ frame.result.message = did_not_reach(frame.target)) =>
              /\ Cardinality(polls) = max_retries
              /\ Cardinality(sleeps) = max_retries
        /\ (frame.pc = "done" /\ frame.result.kind = "return"
               /\ polls # {}) =>
              Cardinality(sleeps) = Cardinality(polls) - 1
        /\ (frame.pc = "done" /\ frame.result.kind = "raise"
               /\ frame.result.message # did_not_reach(frame.target)) =>
              Cardinality(sleeps) = Cardinality(polls) - 1

\* two polls that missed the target, each followed by its sleep, then the
\* failure
C36_Witness ==
    /\ max_retries = 2
    /\ frame.pc = "done"
    /\ frame.result.message = did_not_reach(frame.target)
    /\ Len(requests) = 4
    /\ requests[3].op = "getTorrentInfo"
    /\ requests[4].op = "sleep"

---------------------------------------------------------------------------
(* Further claims about the resolver, checked under SpecResolve *)

\* requests that change what the provider holds
ChangesProvider(op) ==
    op \in {"addMagnet", "addTorrentFile", "selectFiles",
            "createDownloadLink", "deleteTorrent"}

\* C37: when the activeCount reply says the account is at its limit, or
\* lists the info-hash, add_new_torrent fails with the torrent-limit error,
\* respectively the already-downloading error, and has issued no
\* registration (addMagnet, addTorrentFile) nor any other request that
\* changes the provider; otherwise it issues exactly one registration, its
\* third request, and every later addMagnet is the re-registration that
\* create_download_link makes right after deleting a handle.
C37_RegistersOnlyWhenFree ==
    LET a == frame.active IN
    a.seen =>
        /\ a.full =>
             /\ frame.pc = "done"
             /\ frame.result.kind = "raise"
             /\ frame.result.exc = "ProviderException"
             /\ frame.result.message =
                  "Torrent limit reached. Please try again later."
             /\ frame.result.video = "torrent_limit.mp4"
        /\ (~a.full /\ a.listed) =>
             /\ frame.pc = "done"
             /\ frame.result.kind = "raise"
             /\ frame.result.exc = "ProviderException"
             /\ frame.result.message = "Torrent is already being downloading"
             /\ frame.result.video = "torrent_not_downloaded.mp4"
        /\ (a.full \/ a.listed) =>
             /\ Len(requests) = 2
             /\ \A j \in DOMAIN requests : ~ChangesProvider(requests[j].op)
        /\ (~a.full /\ ~a.listed) =>
             /\ Len(requests) = 2 => frame.pc = "add_torrent"
             /\ Len(requests) >= 3 =>
                  requests[3].op \in {"addMagnet", "addTorrentFile"}
             /\ \A j \in DOMAIN requests :
                  (j # 3 /\ requests[j].op \in {"addMagnet", "addTorrentFile"})
                      => requests[j - 1].op = "deleteTorrent"

\* the active list holds the hash: failure after the two reads
C37_Witness ==
    /\ frame.active.seen
    /\ ~frame.active.full
    /\ frame.active.listed
    /\ frame.pc = "done"
    /\ frame.result.message = "Torrent is already being downloading"
    /\ Len(requests) = 2
    /\ requests[1].op = "getUserTorrentList"
    /\ requests[2].op = "getActiveCount"

\* the selectFiles request of line 551 failed with a provider error
SelectFilesFailed == frame.error # NoError

\* the place of the failed selectFiles request in the log
FailedSelectAt ==
    CHOOSE j \in DOMAIN requests :
        /\ requests[j].op = "selectFiles"
        /\ requests[j].arg = "all"

\* C38 (as stated): when the selectFiles request for a handle waiting for
\* file selection fails with a provider error, the handle is deleted and
\* the resolver ends with the transfer error.
C38_SelectFailureFailsTransferError ==
    (SelectFilesFailed /\ frame.pc = "done") =>
        /\ LastRequestIs("deleteTorrent", frame.torrent_id)
        /\ frame.result.kind = "raise"
        /\ frame.result.exc = "ProviderException"
        /\ frame.result.message = "Failed to start torrent download"
        /\ frame.result.video = "transfer_error.mp4"

\* C38 (amended): when the selectFiles request for a handle waiting for
\* file selection fails with a provider error, exactly one deleteTorrent
\* request for the handle follows it at once and is the resolver's last
\* request: no poll for downloaded and no createDownloadLink follows; the
\* resolver ends with the transfer error when the deleteTorrent request is
\* answered, and with that request's own error when it is not.
C38_SelectFailureDeletesHandle ==
    SelectFilesFailed =>
        LET j == FailedSelectAt IN
        /\ frame.pc \in {"delete_not_started", "done"}
        /\ \A k \in DOMAIN requests :
              /\ requests[k].op # "createDownloadLink"
              /\ k > j => requests[k].op = "deleteTorrent"
        /\ frame.pc = "delete_not_started" => Len(requests) = j
        /\ frame.pc = "done" =>
              /\ Len(requests) = j + 1
              /\ LastRequestIs("deleteTorrent", frame.torrent_id)
              /\ requests[j].i = frame.torrent_id
              /\ \/ /\ frame.result.kind = "raise"
                    /\ frame.result.exc = "ProviderException"
                    /\ frame.result.message =
                         "Failed to start torrent download"
                    /\ frame.result.video = "transfer_error.mp4"
                 \/ RequestErrorRaised

\* a registered torrent reached waiting_files_selection at its poll, its
\* selectFiles failed, it was deleted and the transfer error raised
C38_Witness ==
    /\ SelectFilesFailed
    /\ frame.pc = "done"
    /\ OpsOf("getTorrentInfo") # {}
    /\ LastRequestIs("deleteTorrent", frame.torrent_id)
    /\ requests[Len(requests) - 1].op = "selectFiles"
    /\ frame.result.message = "Failed to start torrent download"
    /\ frame.result.video = "transfer_error.mp4"

---------------------------------------------------------------------------
(* Further claims about _make_request, checked under SpecRequest *)

\* C39: every failing outcome of _make_request is a ProviderException: a
\* failure to connect (after its one retry), a timeout, any other client
\* error and any unexpected exception (a JSON error body that does not
\* decode or is no object) are converted by _handle_request_error, and a
\* ProviderException raised while checking the status or parsing the body
\* is the outcome as it was raised, with no attempt after it.
C39_FailsOnlyAsProviderException ==
    /\ call.pc = "done" => call.result.kind \in {"return", "raise"}
    /\ call.result.kind = "raise" =>
         /\ call.pc = "done"
         /\ call.result.exc = "ProviderException"
         /\ call.result.video # ""
         /\ LastAttempt.kind = "ClientConnectorError" =>
              /\ Attempts = 2
              /\ Raised("Failed to connect to Debrid service.",
                        "debrid_service_down_error.mp4")
         /\ LastAttempt.kind = "TimeoutError" =>
              Raised("Request timed out.", "torrent_not_downloaded.mp4")
         /\ LastAttempt.kind = "ClientError" =>
              /\ Raised("Request error", "api_error.mp4")
              /\ call.result.value = "ClientError"
         /\ LastAttempt.kind = "response" =>
              LET checked == _check_response_status(LastAttempt,
                                 call.is_expected_to_fail)
              IN  call.result =
                    IF checked.kind = "raise" THEN checked
                    ELSE _parse_response(LastAttempt, call.is_return_none,
                             call.is_expected_to_fail, call.is_http_response)
    /\ \A k \in 1..Attempts :
         call.attempts[k].kind # "ClientConnectorError" => k = Attempts

\* a client error that is no failure to connect, converted at once
C39_Witness ==
    /\ call.pc = "done"
    /\ Attempts = 1
    /\ LastAttempt.kind = "ClientError"
    /\ Raised("Request error", "api_error.mp4")
    /\ call.result.value = "ClientError"

\* an error body announced as JSON that does not decode: the unexpected
\* exception of response.json() is converted too
C39_WitnessUnexpected ==
    /\ Answered
    /\ LastAttempt.status = 500
    /\ LastAttempt.content_type = "application/json"
    /\ LastAttempt.body = "invalid"
    /\ ~call.is_expected_to_fail
    /\ Raised("Request error", "api_error.mp4")
    /\ call.result.value = "JSONDecodeError"

---------------------------------------------------------------------------
(* Further claims about delete_all_watchlist_rd, checked under SpecDelete *)

\* the deleteTorrent requests issued for the torrent at place k of the list
DeletesOf(k) ==
    {j \in DOMAIN requests :
        requests[j].op = "deleteTorrent" /\ requests[j].i = k}

\* C40: delete_all_watchlist_rd issues exactly one deleteTorrent request for
\* every torrent of the user's torrent list; a delete that failed neither
\* keeps the remaining deletes from being attempted nor makes
\* delete_all_watchlist_rd fail (only the list request can); and it returns
\* only after every delete task has finished.
C40_DeletesEveryTorrentOnce ==
    /\ \A k \in DOMAIN delete_tasks :
          Cardinality(DeletesOf(k)) =
             IF delete_tasks[k] = "created" THEN 0 ELSE 1
    /\ \A j \in DOMAIN requests :
          requests[j].op = "deleteTorrent" => requests[j].i \in DOMAIN delete_tasks
    /\ dpc = "raised" =>
          /\ delete_tasks = <<>>
          /\ Len(requests) = 1
    /\ (dpc = "gather"
          /\ \E k \in DOMAIN delete_tasks : delete_tasks[k] = "created") =>
          \/ ENABLED DeleteAcquire
          \/ InFlight # {}
    /\ (dpc = "gather"
          /\ \A k \in DOMAIN delete_tasks :
                delete_tasks[k] \in {"done", "failed"}) =>
          ENABLED DeleteGathered
    /\ dpc = "done" =>
          /\ \A k \in DOMAIN delete_tasks :
                /\ delete_tasks[k] \in {"done", "failed"}
                /\ Cardinality(DeletesOf(k)) = 1
          /\ Len(requests) = 1 + Len(delete_tasks)

\* a list of four: the first three deletes failed, the fourth, held back by
\* the semaphore until one of them was over, was attempted all the same, and
\* the function returned
C40_Witness ==
    /\ dpc = "done"
    /\ Len(delete_tasks) = 4
    /\ delete_tasks[1] = "failed"
    /\ delete_tasks[2] = "failed"
    /\ delete_tasks[3] = "failed"
    /\ delete_tasks[4] = "done"
    /\ Len(requests) = 5
    /\ requests[5].i = 4

====
